---- MODULE Spec2Model ----
(***************************************************************************)
(* A model of the zero-elimination engine of src/pass/zero_elimination.cc. *)
(*                                                                         *)
(* Expressions of the IR are tuples whose first element is the node kind:  *)
(*   <<"IntImm", n>>  <<"UIntImm", b>> (the boolean constants)             *)
(*   <<"Variable", name, type>>                                            *)
(*   <<"Add", a, b>> ... <<"FloorMod", a, b>>  <<"Min", a, b>> ...          *)
(*   <<"EQ", a, b>> ... <<"And", a, b>>  <<"Or", a, b>>  <<"Not", a>>       *)
(*   <<"Cast", type, a>>  <<"Select", c, t, f>>                            *)
(*   <<"Call", name, args, type>>                                          *)
(* Integer expressions of iteration domains are kept in the canonical      *)
(* linear form the simplifier produces (see the second part).              *)
(***************************************************************************)
EXTENDS Integers, Sequences, FiniteSets, TLC

VARIABLES
  nz_expr,      \* the expression given to NonzeronessCondition
  nz_res,       \* its result <<cond, value>>, or <<>> before the call
  fa_expr,      \* the formula given to FactorOutAtomicFormulas
  fa_res,       \* its result <<atomic_formulas, rest>>, or <<>> before the call
  eq_domain,    \* the domain given to SolveSystemOfEquations
  eq_state,     \* matrix, rhs, rest, old_to_new, new_to_old and index of the call
  eq_pc,        \* "start", "diagonalize" or "done"
  eq_res,       \* the returned transformation, or <<>> before the return
  iq_input,     \* inequalities, variables and vranges given to SolveSystemOfInequalities
  iq_state,     \* current, rest and bounds of the call
  iq_index,     \* the number of variables already solved for
  iq_pc,        \* "start", "variables" or "done"
  iq_res,       \* the returned SolveSystemOfInequalitiesResult, or <<>>
  dk_domain,    \* the domain given to DeskewDomain
  dk_state,     \* the solved system and the maps, ranges and variables built so far
  dk_pc,        \* "start", "variables" or "done"
  dk_res,       \* the returned transformation, or <<>> before the return
  xt_input,     \* expr, cond, outer_axis and vranges given to ExtractAsTensorMaybe
  xt_prep,      \* the simplified domain, new_expr and used_res_variables of the call
  xt_pc,        \* "start", "simplified", or the return statement taken
  xt_res,       \* the returned expression, or <<>> before the return
  ct_chain,     \* three transformations a, b, c with matching boundaries
  ct_res,       \* the compositions made of them, or <<>> before the calls
  sd_input,     \* domain, eliminate_div_mod and the first unused variable of SimplifyDomain
  sd_transf,    \* the local transf of the call, or <<>> before its initialization
  sd_i,         \* the loop counter i of the call
  sd_pc,        \* "start", "eliminate", "solve", "deskew" or "done"
  sd_steps,     \* the steps the call has composed, each with the domain it was applied to
  sd_first,     \* the result of the first call once a second call simplifies its new_domain
  em_input,     \* the expression and the ranges given to EliminateDivMod
  em_pc,        \* "start" or "done"
  em_res,       \* the returned EliminateDivModResult, or <<>> before the return
  fv_expr,      \* the expression given to ExprFreeVars
  fv_pc,        \* "start" or "done"
  fv_res,       \* the returned array of variables
  ol_input,     \* expr_orig, axis and vranges of OptimizeAndLiftNonzeronessConditionsImpl
  ol_expr,      \* the expression the call works on: expr, new_red, then result
  ol_pc,        \* the position in the call, "done" after the return
  ol_res,       \* the returned expression, or <<>> before the return
  xg_args,      \* the arguments a and b given to xgcd
  xg_state,     \* the locals r, old_r, s, old_s, t and old_t of the call
  xg_pc,        \* "loop", "checks" or "done"
  xg_res,       \* the returned tuple, or <<>> before the return
  lc_input,     \* the condition LiftConditionsThroughReduction is called on
  lc_state,     \* its atomics and rest, or <<>> before they are made
  lc_pc,        \* where the call is
  lc_res,       \* the returned pair <<outer, inner>>, or <<>> before the return
  rr_input,     \* the expression and the known conditions given to RemoveRedundantInequalities
  rr_pc,        \* the position of the call
  rr_res        \* the returned expression

nzVars == <<nz_expr, nz_res>>
faVars == <<fa_expr, fa_res>>
eqVars == <<eq_domain, eq_state, eq_pc, eq_res>>
iqVars == <<iq_input, iq_state, iq_index, iq_pc, iq_res>>
dkVars == <<dk_domain, dk_state, dk_pc, dk_res>>
xtVars == <<xt_input, xt_prep, xt_pc, xt_res>>
ctVars == <<ct_chain, ct_res>>
sdVars == <<sd_input, sd_transf, sd_i, sd_pc, sd_steps, sd_first>>
emVars == <<em_input, em_pc, em_res>>
fvVars == <<fv_expr, fv_pc, fv_res>>
olVars == <<ol_input, ol_expr, ol_pc, ol_res>>
xgVars == <<xg_args, xg_state, xg_pc, xg_res>>
lcVars == <<lc_input, lc_state, lc_pc, lc_res>>
rrVars == <<rr_input, rr_pc, rr_res>>
vars == <<nzVars, faVars, eqVars, iqVars, dkVars, xtVars, ctVars, sdVars, emVars, fvVars,
          olVars, xgVars, lcVars, rrVars>>

\* Each specification below runs one part of the pass; the variables of the
\* other parts are idle.
Idle(part) ==
  /\ IF part # "nz" THEN nz_expr = <<>> /\ nz_res = <<>> ELSE TRUE
  /\ IF part # "fa" THEN fa_expr = <<>> /\ fa_res = <<>> ELSE TRUE
  /\ IF part # "eq"
     THEN eq_domain = <<>> /\ eq_state = <<>> /\ eq_pc = "" /\ eq_res = <<>>
     ELSE TRUE
  /\ IF part # "iq"
     THEN /\ iq_input = <<>> /\ iq_state = <<>> /\ iq_index = 0
          /\ iq_pc = "" /\ iq_res = <<>>
     ELSE TRUE
  /\ IF part # "dk"
     THEN dk_domain = <<>> /\ dk_state = <<>> /\ dk_pc = "" /\ dk_res = <<>>
     ELSE TRUE
  /\ IF part # "xt"
     THEN xt_input = <<>> /\ xt_prep = <<>> /\ xt_pc = "" /\ xt_res = <<>>
     ELSE TRUE
  /\ IF part # "ct" THEN ct_chain = <<>> /\ ct_res = <<>> ELSE TRUE
  /\ IF part # "sd"
     THEN /\ sd_input = <<>> /\ sd_transf = <<>> /\ sd_i = 0
          /\ sd_pc = "" /\ sd_steps = <<>> /\ sd_first = <<>>
     ELSE TRUE
  /\ IF part # "em" THEN em_input = <<>> /\ em_pc = "" /\ em_res = <<>> ELSE TRUE
  /\ IF part # "fv" THEN fv_expr = <<>> /\ fv_pc = "" /\ fv_res = <<>> ELSE TRUE
  /\ IF part # "ol"
     THEN ol_input = <<>> /\ ol_expr = <<>> /\ ol_pc = "" /\ ol_res = <<>>
     ELSE TRUE
  /\ IF part # "xg"
     THEN xg_args = <<>> /\ xg_state = <<>> /\ xg_pc = "" /\ xg_res = <<>>
     ELSE TRUE
  /\ IF part # "lc"
     THEN lc_input = <<>> /\ lc_state = <<>> /\ lc_pc = "" /\ lc_res = <<>>
     ELSE TRUE
  /\ IF part # "rr"
     THEN rr_input = <<>> /\ rr_pc = "" /\ rr_res = <<>>
     ELSE TRUE

Frame(part) ==
  /\ IF part # "nz" THEN UNCHANGED nzVars ELSE TRUE
  /\ IF part # "fa" THEN UNCHANGED faVars ELSE TRUE
  /\ IF part # "eq" THEN UNCHANGED eqVars ELSE TRUE
  /\ IF part # "iq" THEN UNCHANGED iqVars ELSE TRUE
  /\ IF part # "dk" THEN UNCHANGED dkVars ELSE TRUE
  /\ IF part # "xt" THEN UNCHANGED xtVars ELSE TRUE
  /\ IF part # "ct" THEN UNCHANGED ctVars ELSE TRUE
  /\ IF part # "sd" THEN UNCHANGED sdVars ELSE TRUE
  /\ IF part # "em" THEN UNCHANGED emVars ELSE TRUE
  /\ IF part # "fv" THEN UNCHANGED fvVars ELSE TRUE
  /\ IF part # "ol" THEN UNCHANGED olVars ELSE TRUE
  /\ IF part # "xg" THEN UNCHANGED xgVars ELSE TRUE
  /\ IF part # "lc" THEN UNCHANGED lcVars ELSE TRUE
  /\ IF part # "rr" THEN UNCHANGED rrVars ELSE TRUE

\* The largest value a variable or a constant of a checked expression takes.
MaxVal == 2

Values == (0 - 1) .. MaxVal

Abs(n) == IF n < 0 THEN 0 - n ELSE n
Sign(n) == IF n < 0 THEN 0 - 1 ELSE IF n > 0 THEN 1 ELSE 0
Min2(a, b) == IF a < b THEN a ELSE b
Max2(a, b) == IF a < b THEN b ELSE a

\* C++ division truncates, floordiv rounds down; b is never 0 here.
truncdiv(a, b) == Sign(a) * Sign(b) * (Abs(a) \div Abs(b))
truncmod(a, b) == a - b * truncdiv(a, b)
floordiv(a, b) ==
  LET q == truncdiv(a, b) IN IF q * b # a /\ Sign(a) * Sign(b) < 0 THEN q - 1 ELSE q
floormod(a, b) == a - b * floordiv(a, b)

(***************************************************************************)
(* Part 1: expression trees.                                               *)
(***************************************************************************)
IntImm(n) == <<"IntImm", n>>
UIntImm(b) == <<"UIntImm", b>>
Var(name, type) == <<"Variable", name, type>>
BinOp(op, a, b) == <<op, a, b>>
Not(a) == <<"Not", a>>
Cast(type, a) == <<"Cast", type, a>>
Select(c, t, f) == <<"Select", c, t, f>>
Call(name, args, type) == <<"Call", name, args, type>>

const_true == UIntImm(1)
const_false == UIntImm(0)

ArithOps == {"Add", "Sub", "Mul", "Div", "Mod", "FloorDiv", "FloorMod", "Min", "Max"}
CmpOps == {"EQ", "NE", "LT", "LE", "GT", "GE"}

RECURSIVE Type(_)
Type(e) ==
  CASE e[1] = "IntImm" -> "int"
    [] e[1] = "UIntImm" -> "bool"
    [] e[1] = "Variable" -> e[3]
    [] e[1] \in ArithOps -> Type(e[2])
    [] e[1] \in CmpOps \cup {"And", "Or", "Not"} -> "bool"
    [] e[1] = "Cast" -> e[2]
    [] e[1] = "Select" -> Type(e[3])
    [] e[1] = "Call" -> e[4]

make_zero(type) == IF type = "bool" THEN UIntImm(0) ELSE IntImm(0)
make_const(type, n) == IF type = "bool" THEN UIntImm(n) ELSE IntImm(n)

if_then_else(c, t, f) == Call("tvm_if_then_else", <<c, t, f>>, Type(t))

\* The value a tensor read a[i] has in the checked environments.
TensorValue(i) == i * i - 1

\* Every divisor of the expression is nonzero under env.
RECURSIVE Defined(_, _)
RECURSIVE Eval(_, _)
Defined(e, env) ==
  CASE e[1] \in {"IntImm", "UIntImm", "Variable"} -> TRUE
    [] e[1] \in {"Div", "Mod", "FloorDiv", "FloorMod"} ->
         Defined(e[2], env) /\ Defined(e[3], env) /\ Eval(e[3], env) # 0
    [] e[1] \in (ArithOps \cup CmpOps \cup {"And", "Or"}) \ {"Div", "Mod", "FloorDiv", "FloorMod"} ->
         Defined(e[2], env) /\ Defined(e[3], env)
    [] e[1] = "Not" -> Defined(e[2], env)
    [] e[1] = "Cast" -> Defined(e[3], env)
    [] e[1] = "Select" -> Defined(e[2], env) /\ Defined(e[3], env) /\ Defined(e[4], env)
    [] e[1] = "Call" -> \A i \in 1..Len(e[3]) : Defined(e[3][i], env)

\* The value of an expression; booleans are 0 and 1.
Eval(e, env) ==
  CASE e[1] \in {"IntImm", "UIntImm"} -> e[2]
    [] e[1] = "Variable" -> env[e[2]]
    [] e[1] = "Add" -> Eval(e[2], env) + Eval(e[3], env)
    [] e[1] = "Sub" -> Eval(e[2], env) - Eval(e[3], env)
    [] e[1] = "Mul" -> Eval(e[2], env) * Eval(e[3], env)
    [] e[1] = "Div" ->
         LET b == Eval(e[3], env) IN IF b = 0 THEN 0 ELSE truncdiv(Eval(e[2], env), b)
    [] e[1] = "Mod" ->
         LET b == Eval(e[3], env) IN IF b = 0 THEN 0 ELSE truncmod(Eval(e[2], env), b)
    [] e[1] = "FloorDiv" ->
         LET b == Eval(e[3], env) IN IF b = 0 THEN 0 ELSE floordiv(Eval(e[2], env), b)
    [] e[1] = "FloorMod" ->
         LET b == Eval(e[3], env) IN IF b = 0 THEN 0 ELSE floormod(Eval(e[2], env), b)
    [] e[1] = "Min" -> Min2(Eval(e[2], env), Eval(e[3], env))
    [] e[1] = "Max" -> Max2(Eval(e[2], env), Eval(e[3], env))
    [] e[1] = "EQ" -> IF Eval(e[2], env) = Eval(e[3], env) THEN 1 ELSE 0
    [] e[1] = "NE" -> IF Eval(e[2], env) # Eval(e[3], env) THEN 1 ELSE 0
    [] e[1] = "LT" -> IF Eval(e[2], env) < Eval(e[3], env) THEN 1 ELSE 0
    [] e[1] = "LE" -> IF Eval(e[2], env) <= Eval(e[3], env) THEN 1 ELSE 0
    [] e[1] = "GT" -> IF Eval(e[2], env) > Eval(e[3], env) THEN 1 ELSE 0
    [] e[1] = "GE" -> IF Eval(e[2], env) >= Eval(e[3], env) THEN 1 ELSE 0
    [] e[1] = "And" -> IF Eval(e[2], env) # 0 /\ Eval(e[3], env) # 0 THEN 1 ELSE 0
    [] e[1] = "Or" -> IF Eval(e[2], env) # 0 \/ Eval(e[3], env) # 0 THEN 1 ELSE 0
    [] e[1] = "Not" -> IF Eval(e[2], env) # 0 THEN 0 ELSE 1
    [] e[1] = "Cast" ->
         LET v == Eval(e[3], env) IN IF e[2] = "bool" /\ v # 0 THEN 1 ELSE v
    [] e[1] = "Select" ->
         IF Eval(e[2], env) # 0 THEN Eval(e[3], env) ELSE Eval(e[4], env)
    [] e[1] = "Call" ->
         IF e[2] = "tvm_if_then_else"
         THEN IF Eval(e[3][1], env) # 0 THEN Eval(e[3][2], env) ELSE Eval(e[3][3], env)
         ELSE TensorValue(Eval(e[3][1], env))

\* operator&&, operator|| and operator! of the IR fold constant operands.
OpAnd(a, b) ==
  IF a[1] = "UIntImm" THEN (IF a[2] # 0 THEN b ELSE a)
  ELSE IF b[1] = "UIntImm" THEN (IF b[2] # 0 THEN a ELSE b)
  ELSE BinOp("And", a, b)

OpOr(a, b) ==
  IF a[1] = "UIntImm" THEN (IF a[2] # 0 THEN a ELSE b)
  ELSE IF b[1] = "UIntImm" THEN (IF b[2] # 0 THEN b ELSE a)
  ELSE BinOp("Or", a, b)

OpNot(a) == IF a[1] = "UIntImm" THEN UIntImm(1 - a[2]) ELSE Not(a)

\* The simplifier on boolean formulas: folds constants, x && x, x || x and !!x.
RECURSIVE RewriteSimplify(_)
RewriteSimplify(e) ==
  CASE e[1] = "And" ->
         LET a == RewriteSimplify(e[2])
             b == RewriteSimplify(e[3])
         IN IF a = b THEN a ELSE OpAnd(a, b)
    [] e[1] = "Or" ->
         LET a == RewriteSimplify(e[2])
             b == RewriteSimplify(e[3])
         IN IF a = b THEN a ELSE OpOr(a, b)
    [] e[1] = "Not" ->
         LET a == RewriteSimplify(e[2])
         IN IF a[1] = "Not" THEN a[2] ELSE OpNot(a)
    [] e[1] \in CmpOps ->
         IF e[2][1] = "IntImm" /\ e[3][1] = "IntImm"
         THEN UIntImm(Eval(e, <<>>))
         ELSE e
    [] OTHER -> e

\* SuperSimplify with no variable ranges, as NonzeronessCondition calls it.
SuperSimplify(e) == RewriteSimplify(e)

RECURSIVE is_const_value(_, _)
is_const_value(e, n) ==
  CASE e[1] \in {"IntImm", "UIntImm"} -> e[2] = n
    [] e[1] = "Cast" -> is_const_value(e[3], n)
    [] OTHER -> FALSE

SelectElseZero(cond, on_true) == Select(cond, on_true, make_zero(Type(on_true)))

\* NonzeronessConditionResult is <<cond, value>>.
NzToExpr(r) == SelectElseZero(r[1], r[2])

Default_(e) == <<const_true, e>>

Const_(e) == IF e[2] = 0 THEN <<const_false, e>> ELSE <<const_true, e>>

BinOpAddLike_(e, nz_a, nz_b) ==
  IF nz_a[1] = nz_b[1]
  THEN <<nz_a[1], BinOp(e[1], nz_a[2], nz_b[2])>>
  ELSE LET new_cond == SuperSimplify(OpOr(nz_a[1], nz_b[1]))
           new_a == IF nz_a[1] = new_cond THEN nz_a[2] ELSE NzToExpr(nz_a)
           new_b == IF nz_b[1] = new_cond THEN nz_b[2] ELSE NzToExpr(nz_b)
       IN <<new_cond, BinOp(e[1], new_a, new_b)>>

\* BinOpMulLike_ combining the conditions with Or, as BinOpAddLike_ does.
BinOpMulLike_WithOr(e, nz_a, nz_b) ==
  <<SuperSimplify(OpOr(nz_a[1], nz_b[1])), BinOp(e[1], nz_a[2], nz_b[2])>>

BinOpMulLike_(e, nz_a, nz_b) ==
  <<SuperSimplify(OpAnd(nz_a[1], nz_b[1])), BinOp(e[1], nz_a[2], nz_b[2])>>

BinOpDivLike_(e, nz_a) == <<nz_a[1], BinOp(e[1], nz_a[2], e[3])>>

NzCast_(e, nz_a) == <<nz_a[1], Cast(e[2], nz_a[2])>>

NzSelect_(e, nz_a, nz_b) ==
  LET cond == e[2]
  IN IF is_const_value(nz_b[2], 0)
     THEN <<SuperSimplify(OpAnd(nz_a[1], cond)), nz_a[2]>>
     ELSE IF is_const_value(nz_a[2], 0)
     THEN <<SuperSimplify(OpAnd(nz_b[1], OpNot(cond))), nz_b[2]>>
     ELSE <<SuperSimplify(OpOr(OpAnd(cond, nz_a[1]), OpAnd(OpNot(cond), nz_b[1]))),
            Select(cond, nz_a[2], nz_b[2])>>

NzIfThenElse_(e, nz_a, nz_b) ==
  LET cond == e[3][1]
  IN <<SuperSimplify(OpOr(OpAnd(cond, nz_a[1]), OpAnd(OpNot(cond), nz_b[1]))),
       if_then_else(cond, nz_a[2], nz_b[2])>>

RECURSIVE NonzeronessCondition(_)
NonzeronessCondition(e) ==
  IF Type(e) = "bool" THEN <<e, const_true>>
  ELSE CASE e[1] = "Variable" -> Default_(e)
         [] e[1] \in {"IntImm", "UIntImm"} -> Const_(e)
         [] e[1] \in {"Add", "Sub", "Min", "Max"} ->
              BinOpAddLike_(e, NonzeronessCondition(e[2]), NonzeronessCondition(e[3]))
         [] e[1] = "Mul" ->
              BinOpMulLike_(e, NonzeronessCondition(e[2]), NonzeronessCondition(e[3]))
         [] e[1] \in {"Div", "Mod", "FloorDiv", "FloorMod"} ->
              BinOpDivLike_(e, NonzeronessCondition(e[2]))
         [] e[1] = "Cast" -> NzCast_(e, NonzeronessCondition(e[3]))
         [] e[1] = "Select" ->
              NzSelect_(e, NonzeronessCondition(e[3]), NonzeronessCondition(e[4]))
         [] e[1] = "Call" ->
              IF e[2] = "tvm_if_then_else"
              THEN NzIfThenElse_(e, NonzeronessCondition(e[3][2]),
                                 NonzeronessCondition(e[3][3]))
              ELSE Default_(e)

\* Compare of the IR: a total order on expressions, by node kind and then by the
\* children from left to right.
KindRank(k) ==
  CASE k = "IntImm" -> 1 [] k = "UIntImm" -> 2 [] k = "Variable" -> 3
    [] k = "Call" -> 4 [] k = "Cast" -> 5
    [] k = "Add" -> 6 [] k = "Sub" -> 7 [] k = "Mul" -> 8 [] k = "Div" -> 9
    [] k = "Mod" -> 10 [] k = "FloorDiv" -> 11 [] k = "FloorMod" -> 12
    [] k = "Min" -> 13 [] k = "Max" -> 14
    [] k = "EQ" -> 15 [] k = "NE" -> 16 [] k = "LT" -> 17 [] k = "LE" -> 18
    [] k = "GT" -> 19 [] k = "GE" -> 20
    [] k = "And" -> 21 [] k = "Or" -> 22 [] k = "Not" -> 23 [] k = "Select" -> 24

NameRank(n) ==
  CASE n = "p" -> 1 [] n = "q" -> 2 [] n = "x" -> 3 [] n = "y" -> 4
    [] n = "i" -> 5 [] n = "k" -> 6 [] OTHER -> 7

CompareInt(a, b) == IF a < b THEN 0 - 1 ELSE IF a > b THEN 1 ELSE 0

RECURSIVE Compare(_, _)
Compare(a, b) ==
  IF a = b THEN 0
  ELSE IF a[1] # b[1] THEN CompareInt(KindRank(a[1]), KindRank(b[1]))
  ELSE CASE a[1] \in {"IntImm", "UIntImm"} -> CompareInt(a[2], b[2])
         [] a[1] = "Variable" -> CompareInt(NameRank(a[2]), NameRank(b[2]))
         [] a[1] = "Not" -> Compare(a[2], b[2])
         [] a[1] = "Cast" -> Compare(a[3], b[3])
         [] a[1] = "Call" -> Compare(a[3][1], b[3][1])
         [] a[1] = "Select" ->
              IF a[2] # b[2] THEN Compare(a[2], b[2])
              ELSE IF a[3] # b[3] THEN Compare(a[3], b[3])
              ELSE Compare(a[4], b[4])
         [] OTHER ->
              IF a[2] # b[2] THEN Compare(a[2], b[2]) ELSE Compare(a[3], b[3])

ExprLess(l, r) == Compare(l, r) < 0

\* std::set_union, std::set_intersection and std::set_difference on sequences
\* sorted by ExprLess.
RECURSIVE set_union(_, _)
set_union(a, b) ==
  IF a = <<>> THEN b
  ELSE IF b = <<>> THEN a
  ELSE IF ExprLess(Head(a), Head(b)) THEN <<Head(a)>> \o set_union(Tail(a), b)
  ELSE IF ExprLess(Head(b), Head(a)) THEN <<Head(b)>> \o set_union(a, Tail(b))
  ELSE <<Head(a)>> \o set_union(Tail(a), Tail(b))

RECURSIVE set_intersection(_, _)
set_intersection(a, b) ==
  IF a = <<>> \/ b = <<>> THEN <<>>
  ELSE IF ExprLess(Head(a), Head(b)) THEN set_intersection(Tail(a), b)
  ELSE IF ExprLess(Head(b), Head(a)) THEN set_intersection(a, Tail(b))
  ELSE <<Head(a)>> \o set_intersection(Tail(a), Tail(b))

RECURSIVE set_difference(_, _)
set_difference(a, b) ==
  IF a = <<>> THEN <<>>
  ELSE IF b = <<>> THEN a
  ELSE IF ExprLess(Head(a), Head(b)) THEN <<Head(a)>> \o set_difference(Tail(a), b)
  ELSE IF ExprLess(Head(b), Head(a)) THEN set_difference(a, Tail(b))
  ELSE set_difference(Tail(a), Tail(b))

\* FactorOutAtomicFormulasResult is <<atomic_formulas, rest>>.
RECURSIVE FaFold(_, _)
FaFold(atoms, res) ==
  IF atoms = <<>> THEN res ELSE FaFold(Tail(atoms), BinOp("And", Head(atoms), res))

FaToExpr(r) == FaFold(r[1], r[2])

FaToArray(r) == Append(r[1], r[2])

Atomic_(e) == <<(<<e>>), make_const(Type(e), 1)>>

FaAnd_(res_a, res_b) == <<set_union(res_a[1], res_b[1]), OpAnd(res_a[2], res_b[2])>>

\* The Or case keeping the union of the atomic formulas, as the And case does.
FaOr_WithUnion(res_a, res_b) ==
  <<set_union(res_a[1], res_b[1]), OpOr(res_a[2], res_b[2])>>

FaOr_(res_a, res_b) ==
  LET res == set_intersection(res_a[1], res_b[1])
      new_cond_a == set_difference(res_a[1], res)
      new_cond_b == set_difference(res_b[1], res)
  IN <<res, OpOr(FaToExpr(<<new_cond_a, res_a[2]>>), FaToExpr(<<new_cond_b, res_b[2]>>))>>

FaSelectAsFormula(e) ==
  OpOr(OpAnd(e[2], e[3]), OpAnd(OpNot(e[2]), e[4]))

\* The formula a Not is rewritten to, or <<>> when the Not is atomic.
FaNotMovedDown(e) ==
  LET a == e[2]
  IN CASE a[1] = "Or" -> OpAnd(OpNot(a[2]), OpNot(a[3]))
       [] a[1] = "And" -> OpOr(OpNot(a[2]), OpNot(a[3]))
       [] a[1] = "Select" -> OpAnd(OpOr(OpNot(a[2]), OpNot(a[3])), OpOr(a[2], OpNot(a[4])))
       [] OTHER -> <<>>

RECURSIVE FactorOutAtomicFormulas(_)
FactorOutAtomicFormulas(e) ==
  CASE e[1] \in {"Variable", "Call", "IntImm", "UIntImm"} \cup CmpOps -> Atomic_(e)
    [] e[1] = "Select" -> FactorOutAtomicFormulas(FaSelectAsFormula(e))
    [] e[1] = "Not" ->
         IF FaNotMovedDown(e) = <<>> THEN Atomic_(e)
         ELSE FactorOutAtomicFormulas(FaNotMovedDown(e))
    [] e[1] = "And" ->
         FaAnd_(FactorOutAtomicFormulas(e[2]), FactorOutAtomicFormulas(e[3]))
    [] e[1] = "Mul" -> FactorOutAtomicFormulas(OpAnd(e[2], e[3]))
    [] e[1] = "Or" ->
         FaOr_(FactorOutAtomicFormulas(e[2]), FactorOutAtomicFormulas(e[3]))

(***************************************************************************)
(* Part 2: iteration domains.                                              *)
(*                                                                         *)
(* A variable is a number. An integer expression is kept in the canonical  *)
(* form of the simplifier, <<c, terms>>: the constant c plus the sum of    *)
(* coef * atom over terms, a sequence of <<atom, coef>> with coef # 0,     *)
(* strictly sorted by atom. An atom is a variable <<"v", id>>, or          *)
(* <<"fd", e, d>> = floordiv(e, d), or <<"fm", e, d>> = floormod(e, d),    *)
(* with d > 0 a constant and e in canonical form.                          *)
(* A condition is <<"EQ", e>> (e == 0), <<"LE", e>> (e <= 0), <<"NE", e>>  *)
(* or a constant <<"Bool", b>>. A Range is <<min, extent>>, both constant. *)
(* A map from variables is a function on a set of variables.               *)
(***************************************************************************)
\* The variables of the checked domains: x, y and the outer variable o.
VarX == 1
VarY == 2
VarO == 3

LinConst(c) == <<c, <<>>>>
LinVar(id) == <<0, <<(<<(<<"v", id>>), 1>>)>>>>
LinIsConst(e) == e[2] = <<>>

AtomKindRank(k) == CASE k = "v" -> 1 [] k = "fd" -> 2 [] k = "fm" -> 3

RECURSIVE LinCompare(_, _)
RECURSIVE AtomCompare(_, _)
RECURSIVE TermsCompare(_, _)
AtomCompare(a, b) ==
  IF a = b THEN 0
  ELSE IF a[1] # b[1] THEN CompareInt(AtomKindRank(a[1]), AtomKindRank(b[1]))
  ELSE IF a[1] = "v" THEN CompareInt(a[2], b[2])
  ELSE IF a[3] # b[3] THEN CompareInt(a[3], b[3])
  ELSE LinCompare(a[2], b[2])

TermsCompare(ta, tb) ==
  IF ta = <<>> /\ tb = <<>> THEN 0
  ELSE IF ta = <<>> THEN 0 - 1
  ELSE IF tb = <<>> THEN 1
  ELSE IF Head(ta)[1] # Head(tb)[1] THEN AtomCompare(Head(ta)[1], Head(tb)[1])
  ELSE IF Head(ta)[2] # Head(tb)[2] THEN CompareInt(Head(ta)[2], Head(tb)[2])
  ELSE TermsCompare(Tail(ta), Tail(tb))

\* Compare on canonical expressions: by the terms, then by the constant.
LinCompare(a, b) ==
  IF a[2] # b[2] THEN TermsCompare(a[2], b[2]) ELSE CompareInt(a[1], b[1])

RECURSIVE MergeTerms(_, _)
MergeTerms(ta, tb) ==
  IF ta = <<>> THEN tb
  ELSE IF tb = <<>> THEN ta
  ELSE LET c == AtomCompare(Head(ta)[1], Head(tb)[1])
       IN IF c < 0 THEN <<Head(ta)>> \o MergeTerms(Tail(ta), tb)
          ELSE IF c > 0 THEN <<Head(tb)>> \o MergeTerms(ta, Tail(tb))
          ELSE IF Head(ta)[2] + Head(tb)[2] = 0 THEN MergeTerms(Tail(ta), Tail(tb))
          ELSE <<(<<Head(ta)[1], Head(ta)[2] + Head(tb)[2]>>)>>
                 \o MergeTerms(Tail(ta), Tail(tb))

LinAdd(a, b) == <<a[1] + b[1], MergeTerms(a[2], b[2])>>

LinScale(k, a) ==
  IF k = 0 THEN LinConst(0)
  ELSE <<k * a[1], [i \in 1..Len(a[2]) |-> <<a[2][i][1], k * a[2][i][2]>>]>>

LinSub(a, b) == LinAdd(a, LinScale(0 - 1, b))
LinNeg(a) == LinScale(0 - 1, a)
LinAddConst(a, c) == <<a[1] + c, a[2]>>
LinAtom(atom) == <<0, <<(<<atom, 1>>)>>>>

RECURSIVE SelectTerms(_, _, _)
\* The terms whose coefficient is (keep = TRUE) or is not a multiple of d.
SelectTerms(terms, d, keep) ==
  IF terms = <<>> THEN <<>>
  ELSE IF (floormod(Head(terms)[2], d) = 0) = keep
  THEN <<Head(terms)>> \o SelectTerms(Tail(terms), d, keep)
  ELSE SelectTerms(Tail(terms), d, keep)

\* floordiv(e, d) and floormod(e, d), d > 0, as the canonical simplifier leaves
\* them: the multiples of d are divided out, the rest stays under the division.
MkFloorDiv(e, d) ==
  LET multiples == SelectTerms(e[2], d, TRUE)
      others == SelectTerms(e[2], d, FALSE)
      quot == <<floordiv(e[1], d),
                [i \in 1..Len(multiples) |-> <<multiples[i][1], multiples[i][2] \div d>>]>>
  IN IF d = 1 THEN e
     ELSE IF others = <<>> THEN quot
     ELSE LinAdd(quot, LinAtom(<<"fd", <<floormod(e[1], d), others>>, d>>))

MkFloorMod(e, d) ==
  LET others == SelectTerms(e[2], d, FALSE)
  IN IF d = 1 THEN LinConst(0)
     ELSE IF others = <<>> THEN LinConst(floormod(e[1], d))
     ELSE LinAtom(<<"fm", <<floormod(e[1], d), others>>, d>>)

\* Substitute followed by simplification: sub maps variables to expressions.
RECURSIVE LinSubst(_, _)
RECURSIVE SubstAtom(_, _)
RECURSIVE SubstTerms(_, _)
SubstAtom(atom, sub) ==
  CASE atom[1] = "v" -> IF atom[2] \in DOMAIN sub THEN sub[atom[2]] ELSE LinAtom(atom)
    [] atom[1] = "fd" -> MkFloorDiv(LinSubst(atom[2], sub), atom[3])
    [] atom[1] = "fm" -> MkFloorMod(LinSubst(atom[2], sub), atom[3])

SubstTerms(terms, sub) ==
  IF terms = <<>> THEN LinConst(0)
  ELSE LinAdd(LinScale(Head(terms)[2], SubstAtom(Head(terms)[1], sub)),
              SubstTerms(Tail(terms), sub))

LinSubst(e, sub) == LinAddConst(SubstTerms(e[2], sub), e[1])

\* The value of an expression where env gives the variables' values.
RECURSIVE LinEval(_, _)
RECURSIVE AtomEval(_, _)
RECURSIVE TermsEval(_, _)
AtomEval(atom, env) ==
  CASE atom[1] = "v" -> env[atom[2]]
    [] atom[1] = "fd" -> floordiv(LinEval(atom[2], env), atom[3])
    [] atom[1] = "fm" -> floormod(LinEval(atom[2], env), atom[3])

TermsEval(terms, env) ==
  IF terms = <<>> THEN 0
  ELSE Head(terms)[2] * AtomEval(Head(terms)[1], env) + TermsEval(Tail(terms), env)

LinEval(e, env) == e[1] + TermsEval(e[2], env)

\* The variables of an expression.
RECURSIVE LinVars(_)
RECURSIVE TermsVars(_)
TermsVars(terms) ==
  IF terms = <<>> THEN {}
  ELSE (IF Head(terms)[1][1] = "v" THEN {Head(terms)[1][2]} ELSE LinVars(Head(terms)[1][2]))
         \cup TermsVars(Tail(terms))

LinVars(e) == TermsVars(e[2])

\* EvalSet on intervals: iv maps each variable to <<lo, hi>>.
RECURSIVE EvalSet(_, _)
RECURSIVE AtomInterval(_, _)
RECURSIVE TermsInterval(_, _)
IntervalDiv(i, d) == <<floordiv(i[1], d), floordiv(i[2], d)>>
IntervalMod(i, d) ==
  IF floordiv(i[1], d) = floordiv(i[2], d)
  THEN <<floormod(i[1], d), floormod(i[2], d)>>
  ELSE <<0, d - 1>>
IntervalScale(k, a) == IF k > 0 THEN <<k * a[1], k * a[2]>> ELSE <<k * a[2], k * a[1]>>
IntervalAdd(a, b) == <<a[1] + b[1], a[2] + b[2]>>

AtomInterval(atom, iv) ==
  CASE atom[1] = "v" -> iv[atom[2]]
    [] atom[1] = "fd" -> IntervalDiv(EvalSet(atom[2], iv), atom[3])
    [] atom[1] = "fm" -> IntervalMod(EvalSet(atom[2], iv), atom[3])

TermsInterval(terms, iv) ==
  IF terms = <<>> THEN <<0, 0>>
  ELSE IntervalAdd(IntervalScale(Head(terms)[2], AtomInterval(Head(terms)[1], iv)),
                   TermsInterval(Tail(terms), iv))

EvalSet(e, iv) == IntervalAdd(<<e[1], e[1]>>, TermsInterval(e[2], iv))

\* IntSet::range and IntSet::cover_range.
IntSetRange(range) == <<range[1], range[1] + range[2] - 1>>
RangesToIntSets(ranges) == [v \in DOMAIN ranges |-> IntSetRange(ranges[v])]
CoverRange(i) == <<i[1], i[2] - i[1] + 1>>

\* SuperSimplify on an integer expression under variable ranges: a variable whose
\* range has extent 1 is replaced by its minimum.
SingleValueVars(vranges) ==
  LET S == {v \in DOMAIN vranges : vranges[v][2] = 1}
  IN [v \in S |-> LinConst(vranges[v][1])]

SuperSimplifyLin(e, vranges) == LinSubst(e, SingleValueVars(vranges))

CondBool(b) == <<"Bool", b>>
CondEval(c, env) ==
  CASE c[1] = "Bool" -> c[2]
    [] c[1] = "EQ" -> LinEval(c[2], env) = 0
    [] c[1] = "LE" -> LinEval(c[2], env) <= 0
    [] c[1] = "NE" -> LinEval(c[2], env) # 0

CondSubst(c, sub) == IF c[1] = "Bool" THEN c ELSE <<c[1], LinSubst(c[2], sub)>>
CondVars(c) == IF c[1] = "Bool" THEN {} ELSE LinVars(c[2])

\* SuperSimplify on a comparison under variable ranges: the comparison of e with
\* zero is decided when the bounds i of e decide it.
DecideCond(kind, e, i) ==
  CASE kind = "LE" ->
         IF i[2] <= 0 THEN CondBool(TRUE)
         ELSE IF i[1] > 0 THEN CondBool(FALSE) ELSE <<"LE", e>>
    [] kind = "EQ" ->
         IF i[1] = 0 /\ i[2] = 0 THEN CondBool(TRUE)
         ELSE IF i[1] > 0 \/ i[2] < 0 THEN CondBool(FALSE) ELSE <<"EQ", e>>
    [] kind = "NE" ->
         IF i[1] = 0 /\ i[2] = 0 THEN CondBool(FALSE)
         ELSE IF i[1] > 0 \/ i[2] < 0 THEN CondBool(TRUE) ELSE <<"NE", e>>

\* A comparison over a variable that has no range is left undecided.
SimplifyCond(kind, e, vranges) ==
  IF LinVars(e) \subseteq DOMAIN vranges
  THEN DecideCond(kind, e, EvalSet(e, RangesToIntSets(vranges)))
  ELSE <<kind, e>>

SuperSimplifyCond(c, vranges) ==
  IF c[1] = "Bool" THEN c ELSE SimplifyCond(c[1], SuperSimplifyLin(c[2], vranges), vranges)

CanProve(c, vranges) == SuperSimplifyCond(c, vranges) = CondBool(TRUE)

\* Make<LT> that keeps the strict comparison of integers: a - b <= 0 for a < b.
MakeLTWithoutOne(a, b) == <<"LE", LinSub(a, b)>>

\* Lines 711-718: Make<LT> on integers gives a - b + 1 <= 0.
MakeLT(a, b) == <<"LE", LinAddConst(LinSub(a, b), 1)>>

\* Lines 701-724. A comparison <<kind, a, b>> of two integer expressions becomes
\* a comparison with zero <<kind, e>>, which is left as it is.
NormalizeComparisons(c) ==
  IF Len(c) = 2 THEN c
  ELSE CASE c[1] \in {"EQ", "NE", "LE"} -> <<c[1], LinSub(c[2], c[3])>>
         [] c[1] = "LT" -> MakeLT(c[2], c[3])
         [] c[1] = "GT" -> MakeLT(c[3], c[2])
         [] c[1] = "GE" -> <<"LE", LinSub(c[3], c[2])>>

\* SuperSimplify on a comparison of two expressions: decided when its normal form
\* is, and otherwise simplified on both sides.
SuperSimplifyCmp(c, vranges) ==
  IF Len(c) = 2 THEN SuperSimplifyCond(c, vranges)
  ELSE IF SuperSimplifyCond(NormalizeComparisons(c), vranges)[1] = "Bool"
       THEN SuperSimplifyCond(NormalizeComparisons(c), vranges)
       ELSE <<c[1], SuperSimplifyLin(c[2], vranges), SuperSimplifyLin(c[3], vranges)>>

SeqToSet(s) == {s[i] : i \in 1..Len(s)}

DomainNode(variables, conditions, ranges) ==
  [variables |-> variables, conditions |-> conditions, ranges |-> ranges]

DomainTransformationNode(new_domain, old_domain, new_to_old, old_to_new) ==
  [new_domain |-> new_domain, old_domain |-> old_domain,
   new_to_old |-> new_to_old, old_to_new |-> old_to_new]

EmptyMap == [v \in {} |-> 0]

RECURSIVE SortedVars(_)
\* The variables of a set in the order of Compare.
SortedVars(S) ==
  IF S = {} THEN <<>>
  ELSE LET m == CHOOSE v \in S : \A w \in S : v <= w
       IN <<m>> \o SortedVars(S \ {m})

ComposeOffByOne(first, second) ==
  DomainTransformationNode(
    second.new_domain, first.old_domain,
    [v \in DOMAIN second.new_to_old |->
       SuperSimplifyLin(LinSubst(second.new_to_old[v], first.new_to_old),
                        first.old_domain.ranges)],
    [v \in DOMAIN first.old_to_new |->
       LinAddConst(SuperSimplifyLin(LinSubst(first.old_to_new[v], second.old_to_new),
                                    second.new_domain.ranges), 1)])

\* Lines 315-330.
ComposeDomainTransformations(first, second) ==
  DomainTransformationNode(
    second.new_domain, first.old_domain,
    [v \in DOMAIN second.new_to_old |->
       SuperSimplifyLin(LinSubst(second.new_to_old[v], first.new_to_old),
                        first.old_domain.ranges)],
    [v \in DOMAIN first.old_to_new |->
       SuperSimplifyLin(LinSubst(first.old_to_new[v], second.old_to_new),
                        second.new_domain.ranges)])

EmptyMappingToOne(domain) ==
  DomainTransformationNode(
    DomainNode(<<>>, <<CondBool(FALSE)>>, EmptyMap), domain, EmptyMap,
    [v \in SeqToSet(domain.variables) |-> LinConst(1)])

\* Lines 337-345.
EmptyDomainTransformation(domain) ==
  DomainTransformationNode(
    DomainNode(<<>>, <<CondBool(FALSE)>>, EmptyMap), domain, EmptyMap,
    [v \in SeqToSet(domain.variables) |-> LinConst(0)])

IdShifted(domain) ==
  LET id == [v \in SeqToSet(domain.variables) |-> LinAddConst(LinVar(v), 1)]
  IN DomainTransformationNode(domain, domain, id, id)

\* Lines 347-353.
IdDomainTransformation(domain) ==
  LET id == [v \in SeqToSet(domain.variables) |-> LinVar(v)]
  IN DomainTransformationNode(domain, domain, id, id)

(***************************************************************************)
(* SolveSystemOfEquations. Rows, columns and index count from 1.           *)
(***************************************************************************)
RECURSIVE xgcdLoop(_, _, _, _, _, _)
xgcdLoop(r, old_r, s, old_s, t, old_t) ==
  IF r = 0 THEN <<old_r, old_s, old_t>>
  ELSE LET q == truncdiv(old_r, r)
       IN xgcdLoop(old_r - q * r, r, old_s - q * s, s, old_t - q * t, t)

xgcd(a, b) == xgcdLoop(b, a, 0, 1, 1, 0)

\* The three CHECKs at the end of xgcd.
xgcdChecks(a, b) ==
  LET res == xgcd(a, b)
  IN /\ res[1] # 0
     /\ truncmod(a, res[1]) = 0
     /\ truncmod(b, res[1]) = 0
     /\ res[1] = res[2] * a + res[3] * b

\* arith::DetectLinearEquation on a canonical expression: the coefficients of the
\* variables and the remaining base, or <<>> when another atom holds a variable.
DetectLinearEquation(e, variables) ==
  LET isVar(t) == t[1][1] = "v" /\ t[1][2] \in SeqToSet(variables)
      coef(v) == IF \E i \in 1..Len(e[2]) : e[2][i][1] = <<"v", v>>
                 THEN (CHOOSE t \in SeqToSet(e[2]) : t[1] = <<"v", v>>)[2]
                 ELSE 0
      base == <<e[1], SelectSeq(e[2], LAMBDA t : ~isVar(t))>>
  IN IF LinVars(base) \cap SeqToSet(variables) # {} THEN <<>>
     ELSE <<[j \in 1..Len(variables) |-> coef(variables[j])], base>>

IdentityMatrix(n) == [i \in 1..n |-> [j \in 1..n |-> IF i = j THEN 1 ELSE 0]]

RECURSIVE CollectRows(_, _, _)
\* Lines 1391-1418: the equations become rows, the other conditions go to rest.
CollectRows(domain, k, acc) ==
  IF k > Len(domain.conditions) THEN acc
  ELSE LET formula == domain.conditions[k]
           coefs == IF formula[1] = "EQ"
                    THEN DetectLinearEquation(SuperSimplifyLin(formula[2], domain.ranges), domain.variables)
                    ELSE <<>>
       IN IF coefs # <<>> /\ coefs[1] # <<>>
          THEN CollectRows(domain, k + 1,
                 [acc EXCEPT !.matrix = Append(@, coefs[1]),
                             !.rhs = Append(@, LinNeg(coefs[2]))])
          ELSE CollectRows(domain, k + 1, [acc EXCEPT !.rest = Append(@, formula)])

SolveSetup(domain) ==
  CollectRows(domain, 1,
    [matrix |-> <<>>, rhs |-> <<>>, rest |-> <<>>,
     old_to_new |-> IdentityMatrix(Len(domain.variables)),
     new_to_old |-> [i \in 1..Len(domain.variables) |-> LinVar(domain.variables[i])],
     index |-> 1])

SwapSeq(s, i, j) == [s EXCEPT ![i] = s[j], ![j] = s[i]]

RECURSIVE FindBestRow(_, _, _, _)
\* Lines 1428-1437.
FindBestRow(matrix, index, i, best_i) ==
  IF i > Len(matrix) THEN best_i
  ELSE LET m_old == matrix[best_i][index]
           m_new == matrix[i][index]
       IN IF m_new # 0 /\ (m_old = 0 \/ Abs(m_new) < Abs(m_old))
          THEN FindBestRow(matrix, index, i + 1, i)
          ELSE FindBestRow(matrix, index, i + 1, best_i)

\* The column swap of the matrix alone, the swaps of lines 1451-1454 left out.
SwapColumnOfMatrixOnly(st, index, vars_size) ==
  LET cands == {j \in (index + 1)..vars_size : st.matrix[index][j] # 0}
  IN IF st.matrix[index][index] # 0 \/ cands = {} THEN st
     ELSE LET j == CHOOSE c \in cands : \A d \in cands : c <= d
          IN [st EXCEPT
               !.matrix = [i \in 1..Len(st.matrix) |->
                             IF i >= index THEN SwapSeq(st.matrix[i], index, j)
                             ELSE st.matrix[i]]]

\* Lines 1444-1458: the first column after index with a nonzero element in the
\* index-th row is swapped into the index-th position.
SwapColumn(st, index, vars_size) ==
  LET cands == {j \in (index + 1)..vars_size : st.matrix[index][j] # 0}
  IN IF st.matrix[index][index] # 0 \/ cands = {} THEN st
     ELSE LET j == CHOOSE c \in cands : \A d \in cands : c <= d
          IN [st EXCEPT
               !.matrix = [i \in 1..Len(st.matrix) |->
                             IF i >= index THEN SwapSeq(st.matrix[i], index, j)
                             ELSE st.matrix[i]],
               !.new_to_old = SwapSeq(@, index, j),
               !.old_to_new = [i \in 1..Len(st.old_to_new) |->
                                 SwapSeq(st.old_to_new[i], index, j)]]

\* Lines 1470-1480 and 1524-1538: <<g, a, b, used_xgcd>>.
GcdCoefficients(m, n) ==
  IF truncmod(n, m) # 0 THEN xgcd(m, n) \o <<TRUE>> ELSE <<m, 1, 0, FALSE>>

\* Lines 1495-1503: from column index on, the row a*row_a + b*row_b; before it,
\* the row kept.
CombineRows(a, row_a, b, row_b, index, kept) ==
  SubSeq([j \in 1..Len(kept) |->
            IF j >= index THEN a * row_a[j] + b * row_b[j] ELSE kept[j]], 1, Len(kept))

RECURSIVE RowPhase(_, _, _)
\* Lines 1468-1515.
RowPhase(st, index, i) ==
  IF i > Len(st.matrix) THEN st
  ELSE IF st.matrix[i][index] = 0 THEN RowPhase(st, index, i + 1)
  ELSE LET gab == GcdCoefficients(st.matrix[index][index], st.matrix[i][index])
           a == gab[2]
           b == gab[3]
           m_g == truncdiv(st.matrix[index][index], gab[1])
           n_g == truncdiv(st.matrix[i][index], gab[1])
           row_index == CombineRows(a, st.matrix[index], b, st.matrix[i], index,
                                    st.matrix[index])
           row_i == CombineRows(n_g, st.matrix[index], 0 - m_g, st.matrix[i], index,
                                st.matrix[i])
           new_index_rhs == LinAdd(LinScale(a, st.rhs[index]), LinScale(b, st.rhs[i]))
           new_i_rhs == LinSub(LinScale(n_g, st.rhs[index]), LinScale(m_g, st.rhs[i]))
       IN RowPhase([st EXCEPT !.matrix = [@ EXCEPT ![index] = row_index, ![i] = row_i],
                              !.rhs = [@ EXCEPT ![index] = new_index_rhs, ![i] = new_i_rhs]],
                   index, i + 1)

RECURSIVE ColumnPhaseAlwaysChanged(_, _, _, _, _)
\* The column phase with changed set at every combination, also the ones of
\* lines 1531-1537 that do not use xgcd.
ColumnPhaseAlwaysChanged(st, index, j, vars_size, changed) ==
  IF j > vars_size THEN <<st, changed>>
  ELSE IF st.matrix[index][j] = 0
  THEN ColumnPhaseAlwaysChanged(st, index, j + 1, vars_size, changed)
  ELSE LET gab == GcdCoefficients(st.matrix[index][index], st.matrix[index][j])
           a == gab[2]
           b == gab[3]
           m_g == truncdiv(st.matrix[index][index], gab[1])
           n_g == truncdiv(st.matrix[index][j], gab[1])
           combine(row) == [row EXCEPT ![index] = a * row[index] + b * row[j],
                                       ![j] = n_g * row[index] - m_g * row[j]]
           new_index == LinAdd(LinScale(m_g, st.new_to_old[index]),
                               LinScale(n_g, st.new_to_old[j]))
           new_j == LinSub(LinScale(b, st.new_to_old[index]), LinScale(a, st.new_to_old[j]))
       IN ColumnPhaseAlwaysChanged(
            [st EXCEPT
              !.matrix = [i \in 1..Len(st.matrix) |->
                            IF i >= index THEN combine(st.matrix[i]) ELSE st.matrix[i]],
              !.old_to_new = [i \in 1..Len(st.old_to_new) |-> combine(st.old_to_new[i])],
              !.new_to_old = [@ EXCEPT ![index] = new_index, ![j] = new_j]],
            index, j + 1, vars_size, TRUE)

RECURSIVE ColumnPhase(_, _, _, _, _)
\* Lines 1522-1575: <<state, changed>>.
ColumnPhase(st, index, j, vars_size, changed) ==
  IF j > vars_size THEN <<st, changed>>
  ELSE IF st.matrix[index][j] = 0 THEN ColumnPhase(st, index, j + 1, vars_size, changed)
  ELSE LET gab == GcdCoefficients(st.matrix[index][index], st.matrix[index][j])
           a == gab[2]
           b == gab[3]
           m_g == truncdiv(st.matrix[index][index], gab[1])
           n_g == truncdiv(st.matrix[index][j], gab[1])
           combine(row) == [row EXCEPT ![index] = a * row[index] + b * row[j],
                                       ![j] = n_g * row[index] - m_g * row[j]]
           new_index == LinAdd(LinScale(m_g, st.new_to_old[index]),
                               LinScale(n_g, st.new_to_old[j]))
           new_j == LinSub(LinScale(b, st.new_to_old[index]), LinScale(a, st.new_to_old[j]))
       IN ColumnPhase(
            [st EXCEPT
              !.matrix = [i \in 1..Len(st.matrix) |->
                            IF i >= index THEN combine(st.matrix[i]) ELSE st.matrix[i]],
              !.old_to_new = [i \in 1..Len(st.old_to_new) |-> combine(st.old_to_new[i])],
              !.new_to_old = [@ EXCEPT ![index] = new_index, ![j] = new_j]],
            index, j + 1, vars_size, changed \/ gab[4])

\* The loop at line 1421 continues.
DiagonalizeContinues(st, vars_size) == st.index <= Min2(Len(st.matrix), vars_size)

\* The iteration without the repetition of lines 1577-1581.
DiagonalizeStepNoRepeat(st, vars_size) ==
  LET index == st.index
      best_i == FindBestRow(st.matrix, index, index, index)
      swapped == [st EXCEPT !.matrix = SwapSeq(@, index, best_i),
                            !.rhs = SwapSeq(@, index, best_i)]
      st2 == SwapColumn(swapped, index, vars_size)
  IN IF st2.matrix[index][index] = 0 THEN [st2 EXCEPT !.index = index + 1]
     ELSE LET st3 == RowPhase(st2, index, index + 1)
              res == ColumnPhase(st3, index, index + 1, vars_size, FALSE)
          IN [res[1] EXCEPT !.index = index + 1]

\* One iteration of the loop at lines 1421-1582. "index -= 1" followed by
\* "++index" leaves index as it was.
DiagonalizeStep(st, vars_size) ==
  LET index == st.index
      best_i == FindBestRow(st.matrix, index, index, index)
      swapped == [st EXCEPT !.matrix = SwapSeq(@, index, best_i),
                            !.rhs = SwapSeq(@, index, best_i)]
      st2 == SwapColumn(swapped, index, vars_size)
  IN IF st2.matrix[index][index] = 0 THEN [st2 EXCEPT !.index = index + 1]
     ELSE LET st3 == RowPhase(st2, index, index + 1)
              res == ColumnPhase(st3, index, index + 1, vars_size, FALSE)
          IN [res[1] EXCEPT !.index = IF res[2] THEN index ELSE index + 1]

RECURSIVE Diagonalize(_, _)
Diagonalize(st, vars_size) ==
  IF DiagonalizeContinues(st, vars_size)
  THEN Diagonalize(DiagonalizeStep(st, vars_size), vars_size)
  ELSE st

SolvabilityConditionsZeroOnly(st, rhs, domain) ==
  [j \in 1..Len(st.matrix) |-> SuperSimplifyCond(<<"EQ", rhs[j]>>, domain.ranges)]

\* Lines 1595-1611: the conditions of the existence of a solution, simplified.
SolvabilityConditions(st, rhs, domain) ==
  [j \in 1..Len(st.matrix) |->
     SuperSimplifyCond(
       IF j > Len(domain.variables) \/ st.matrix[j][j] = 0
       THEN <<"EQ", rhs[j]>>
       ELSE <<"EQ", MkFloorMod(rhs[j], Abs(st.matrix[j][j]))>>,
       domain.ranges)]

\* Line 1615: the j-th new variable can take any value.
IsFreeColumn(st, j) == j > Len(st.matrix) \/ st.matrix[j][j] = 0

\* Lines 1614-1637: new variables are numbered from fresh in the order of creation.
NewVarOfColumn(st, j, fresh) ==
  fresh + Cardinality({k \in 1..(j - 1) : IsFreeColumn(st, k)})

Solution(st, rhs, domain, fresh) ==
  [j \in 1..Len(domain.variables) |->
     IF IsFreeColumn(st, j) THEN LinVar(NewVarOfColumn(st, j, fresh))
     ELSE IF st.matrix[j][j] >= 0
     THEN SuperSimplifyLin(MkFloorDiv(rhs[j], st.matrix[j][j]), domain.ranges)
     ELSE SuperSimplifyLin(MkFloorDiv(LinNeg(rhs[j]), 0 - st.matrix[j][j]), domain.ranges)]

RECURSIVE SumColumns(_, _, _)
\* Lines 1642-1645.
SumColumns(row, solution, j) ==
  IF j > Len(row) THEN LinConst(0)
  ELSE LinAdd(LinScale(row[j], solution[j]), SumColumns(row, solution, j + 1))

RangeConditionsDropped(sorted, domain, old_to_new_map, ranges) == <<>>

\* Lines 1690-1695: a condition is kept unless it is the constant true.
UnlessTrue(cond) == IF cond = CondBool(TRUE) THEN <<>> ELSE <<cond>>

\* Lines 1686-1695: lower_cond and upper_cond of a variable with the range r.
RangeConditionsOf(r, in_terms_of_new, ranges) ==
  UnlessTrue(SuperSimplifyCond(<<"LE", LinSub(LinConst(r[1]), in_terms_of_new)>>, ranges))
    \o UnlessTrue(SuperSimplifyCond(
                    <<"LE", LinAddConst(in_terms_of_new, 1 - (r[1] + r[2]))>>, ranges))

RECURSIVE RangeConditions(_, _, _, _)
\* Lines 1683-1695: the ranges of the old variables as conditions over the new ones.
RangeConditions(sorted, domain, old_to_new_map, ranges) ==
  IF sorted = <<>> THEN <<>>
  ELSE (IF Head(sorted) \in DOMAIN old_to_new_map
        THEN RangeConditionsOf(domain.ranges[Head(sorted)], old_to_new_map[Head(sorted)],
                               ranges)
        ELSE <<>>)
         \o RangeConditions(Tail(sorted), domain, old_to_new_map, ranges)

\* Lines 1614-1625: the new variables and what they are in terms of the old ones.
NewVars(st, vars_size, fresh) ==
  [k \in 1..Cardinality({j \in 1..vars_size : IsFreeColumn(st, j)}) |-> fresh + k - 1]

ColumnOfNewVar(st, vars_size, fresh, v) ==
  CHOOSE j \in 1..vars_size : IsFreeColumn(st, j) /\ NewVarOfColumn(st, j, fresh) = v

NewToOldMap(domain, st, fresh) ==
  [v \in SeqToSet(NewVars(st, Len(domain.variables), fresh)) |->
     SuperSimplifyLin(st.new_to_old[ColumnOfNewVar(st, Len(domain.variables), fresh, v)],
                      domain.ranges)]

\* Lines 1639-1648.
OldToNewMap(domain, st, solution) ==
  [v \in SeqToSet(domain.variables) |->
     SumColumns(st.old_to_new[CHOOSE k \in 1..Len(domain.variables) : domain.variables[k] = v],
                solution, 1)]

\* NewRanges giving every new variable a range that starts at zero.
NewRangesFromZero(domain, new_to_old_map) ==
  [v \in (DOMAIN domain.ranges \ SeqToSet(domain.variables)) \cup DOMAIN new_to_old_map |->
     IF v \in DOMAIN domain.ranges \ SeqToSet(domain.variables) THEN domain.ranges[v]
     ELSE <<0, CoverRange(EvalSet(new_to_old_map[v], RangesToIntSets(domain.ranges)))[2]>>]

\* Lines 1653-1679: the ranges of the outer variables and of the new variables.
NewRanges(domain, new_to_old_map) ==
  [v \in (DOMAIN domain.ranges \ SeqToSet(domain.variables)) \cup DOMAIN new_to_old_map |->
     IF v \in DOMAIN domain.ranges \ SeqToSet(domain.variables) THEN domain.ranges[v]
     ELSE CoverRange(EvalSet(new_to_old_map[v], RangesToIntSets(domain.ranges)))]

\* Lines 1595-1611, 1681-1700.
SolveConditions(domain, st, solvable, old_to_new_map, ranges) ==
  SelectSeq(solvable, LAMBDA c : c # CondBool(TRUE))
    \o RangeConditions(SortedVars(DOMAIN domain.ranges), domain, old_to_new_map, ranges)
    \o [k \in 1..Len(st.rest) |-> CondSubst(st.rest[k], old_to_new_map)]

\* Lines 1600-1603 and 1702-1704.
SolveResult(domain, st, solvable, new_vars, new_to_old_map, old_to_new_map, ranges) ==
  IF \E j \in 1..Len(solvable) : solvable[j] = CondBool(FALSE)
  THEN EmptyDomainTransformation(domain)
  ELSE DomainTransformationNode(
         DomainNode(new_vars, SolveConditions(domain, st, solvable, old_to_new_map, ranges),
                    ranges),
         domain, new_to_old_map, old_to_new_map)

SolveWithMaps(domain, st, solvable, new_vars, new_to_old_map, old_to_new_map) ==
  SolveResult(domain, st, solvable, new_vars, new_to_old_map, old_to_new_map,
              NewRanges(domain, new_to_old_map))

SolveWithRhs(domain, st, rhs, fresh) ==
  SolveWithMaps(domain, st, SolvabilityConditions(st, rhs, domain),
                NewVars(st, Len(domain.variables), fresh),
                NewToOldMap(domain, st, fresh),
                OldToNewMap(domain, st, Solution(st, rhs, domain, fresh)))

\* Lines 1584-1705, after the diagonalization has ended in st.
SolveFinish(domain, st, fresh) ==
  SolveWithRhs(domain, st,
               [i \in 1..Len(st.rhs) |-> SuperSimplifyLin(st.rhs[i], domain.ranges)], fresh)

\* Lines 1346-1705; fresh is the first unused variable.
SolveSystemOfEquations(domain, fresh) ==
  SolveFinish(domain, Diagonalize(SolveSetup(domain), Len(domain.variables)), fresh)

(***************************************************************************)
(* SolveSystemOfInequalities.                                              *)
(***************************************************************************)
RECURSIVE gcdLoop(_, _)
gcdLoop(a, b) == IF b = 0 THEN a ELSE gcdLoop(b, truncmod(a, b))

\* Lines 143-151.
gcd(a, b) == IF a < b THEN gcdLoop(b, a) ELSE gcdLoop(a, b)

\* Lines 153-155.
lcm(a, b) == truncdiv(a * b, gcd(a, b))

CondKindRank(k) == CASE k = "Bool" -> 0 [] k = "EQ" -> 1 [] k = "LE" -> 2 [] k = "NE" -> 3

\* Compare on conditions.
CondCompare(a, b) ==
  IF a[1] # b[1] THEN CompareInt(CondKindRank(a[1]), CondKindRank(b[1]))
  ELSE IF a[1] = "Bool" THEN CompareInt(IF a[2] THEN 1 ELSE 0, IF b[2] THEN 1 ELSE 0)
  ELSE LinCompare(a[2], b[2])

CondLess(a, b) == CondCompare(a, b) < 0

\* std::set<Expr, ExprLess> as a strictly sorted sequence.
LowerBound(set, c) ==
  LET notLess == {k \in 1..Len(set) : ~CondLess(set[k], c)}
  IN IF notLess = {} THEN Len(set) + 1 ELSE CHOOSE k \in notLess : \A l \in notLess : k <= l

RemoveAt(seq, k) == [i \in 1..(Len(seq) - 1) |-> IF i < k THEN seq[i] ELSE seq[i + 1]]
InsertAt(seq, k, c) ==
  [i \in 1..(Len(seq) + 1) |-> IF i < k THEN seq[i] ELSE IF i = k THEN c ELSE seq[i - 1]]

SetInsert(set, c) ==
  LET k == LowerBound(set, c)
  IN IF k <= Len(set) /\ set[k] = c THEN set ELSE InsertAt(set, k, c)

\* CanProve(a <= b).
CanProveLE(a, b, vranges) == CanProve(<<"LE", LinSub(a, b)>>, vranges)

\* The element at position k of the set is an inequality.
IsLEAt(set, k) == k >= 1 /\ k <= Len(set) /\ set[k][1] = "LE"

\* Lines 1777 and 1788: the new inequality follows from the neighbour at k.
ImpliedByNeighbor(set, k, new_ineq, vranges) ==
  IsLEAt(set, k) /\ CanProveLE(new_ineq[2], set[k][2], vranges)

\* Lines 1780 and 1791: the neighbour at k follows from the new inequality.
ImpliesNeighbor(set, k, new_ineq, vranges) ==
  IsLEAt(set, k) /\ CanProveLE(set[k][2], new_ineq[2], vranges)

\* Lines 1785-1796: the neighbour at it_neighbor, then the insertion.
CheckOtherNeighbor(set, it_neighbor, new_ineq, vranges) ==
  IF ImpliedByNeighbor(set, it_neighbor, new_ineq, vranges) THEN set
  ELSE IF ImpliesNeighbor(set, it_neighbor, new_ineq, vranges)
  THEN SetInsert(RemoveAt(set, it_neighbor), new_ineq)
  ELSE SetInsert(set, new_ineq)

\* Lines 1773-1783: the neighbour before it_neighbor.
CheckPrevNeighbor(set, it_neighbor, new_ineq, vranges) ==
  IF ImpliedByNeighbor(set, it_neighbor - 1, new_ineq, vranges) THEN set
  ELSE IF ImpliesNeighbor(set, it_neighbor - 1, new_ineq, vranges)
  THEN CheckOtherNeighbor(RemoveAt(set, it_neighbor - 1), it_neighbor - 1, new_ineq, vranges)
  ELSE CheckOtherNeighbor(set, it_neighbor, new_ineq, vranges)

\* Lines 1765-1797.
add_to_new_current(new_current, new_ineq, vranges) ==
  IF CanProve(new_ineq, vranges) THEN new_current
  ELSE IF new_ineq[1] # "LE" THEN SetInsert(new_current, new_ineq)
  ELSE CheckPrevNeighbor(new_current, LowerBound(new_current, new_ineq), new_ineq, vranges)

RECURSIVE AddInequalities(_, _, _, _)
\* Lines 1800-1802.
AddInequalities(new_current, inequalities, k, vranges) ==
  IF k > Len(inequalities) THEN new_current
  ELSE AddInequalities(
         add_to_new_current(new_current,
                            NormalizeComparisons(SuperSimplifyCmp(inequalities[k], vranges)),
                            vranges),
         inequalities, k + 1, vranges)

\* Lines 1832-1858: an inequality or equality with the coefficient coef0 at v.
ClassifyCoef(acc, ineq, coef0, base, vranges) ==
  IF coef0 = 0
  THEN [acc EXCEPT !.new_current = add_to_new_current(@, ineq, vranges)]
  ELSE IF ineq[1] = "LE"
  THEN (IF coef0 > 0
        THEN [acc EXCEPT !.coef_pos = Append(@, <<coef0, base>>)]
        ELSE [acc EXCEPT !.coef_neg = Append(@, <<coef0, base>>)])
  ELSE (IF coef0 > 0
        THEN [acc EXCEPT !.coef_pos = Append(@, <<coef0, base>>),
                         !.coef_neg = Append(@, <<0 - coef0, LinNeg(base)>>)]
        ELSE [acc EXCEPT !.coef_pos = Append(@, <<0 - coef0, LinNeg(base)>>),
                         !.coef_neg = Append(@, <<coef0, base>>)])

\* Lines 1824-1860 for one formula; coef is <<>> when it is not linear in v.
ClassifyOne(acc, ineq, coef, vranges) ==
  IF coef = <<>> THEN [acc EXCEPT !.rest = Append(@, ineq)]
  ELSE ClassifyCoef(acc, ineq, coef[1][1], coef[2], vranges)

RECURSIVE Classify(_, _, _, _, _)
\* Lines 1824-1860: acc holds new_current, coef_pos, coef_neg and rest.
Classify(current, k, v, vranges, acc) ==
  IF k > Len(current) THEN acc
  ELSE Classify(current, k + 1, v, vranges,
                ClassifyOne(acc, current[k],
                            IF current[k][1] \in {"LE", "EQ"}
                            THEN DetectLinearEquation(current[k][2], <<v>>)
                            ELSE <<>>,
                            vranges))

\* Lines 1866-1869 with first_gcd.
CombineWithGcd(pos, neg, first_gcd, vranges) ==
  SuperSimplifyCond(
    <<"LE", LinSub(LinScale(truncdiv(pos[1], first_gcd), neg[2]),
                   LinScale(truncdiv(neg[1], first_gcd), pos[2]))>>,
    vranges)

\* Lines 1865-1870: a positive and a negative inequality added together.
CombinePosNeg(pos, neg, vranges) ==
  CombineWithGcd(pos, neg, gcd(pos[1], 0 - neg[1]), vranges)

RECURSIVE Combine(_, _, _, _, _, _)
\* Lines 1863-1873.
Combine(new_current, coef_pos, coef_neg, i, j, vranges) ==
  IF i > Len(coef_pos) THEN new_current
  ELSE IF j > Len(coef_neg) THEN Combine(new_current, coef_pos, coef_neg, i + 1, 1, vranges)
  ELSE Combine(add_to_new_current(new_current,
                                  CombinePosNeg(coef_pos[i], coef_neg[j], vranges), vranges),
               coef_pos, coef_neg, i, j + 1, vranges)

RECURSIVE LcmOfCoefs(_, _, _)
\* Lines 1879-1885.
LcmOfCoefs(coef_lcm, coefs, k) ==
  IF k > Len(coefs) THEN coef_lcm
  ELSE LcmOfCoefs(lcm(coef_lcm, Abs(coefs[k][1])), coefs, k + 1)

AddUpperBoundKeepWorse(upper_bounds, bound, vranges) ==
  IF \E i \in 1..Len(upper_bounds) : CanProveLE(bound, upper_bounds[i], vranges)
  THEN upper_bounds
  ELSE Append(SelectSeq(upper_bounds, LAMBDA o : ~CanProveLE(o, bound, vranges)), bound)

\* Lines 1896-1909: a bound is dropped when a kept one is not greater, and the
\* kept ones that are not less than a new bound are dropped.
AddUpperBound(upper_bounds, bound, vranges) ==
  IF \E i \in 1..Len(upper_bounds) : CanProveLE(upper_bounds[i], bound, vranges)
  THEN upper_bounds
  ELSE Append(SelectSeq(upper_bounds, LAMBDA o : ~CanProveLE(bound, o, vranges)), bound)

RECURSIVE UpperBounds(_, _, _, _, _)
\* Lines 1893-1910.
UpperBounds(upper_bounds, coef_pos, k, coef_lcm, vranges) ==
  IF k > Len(coef_pos) THEN upper_bounds
  ELSE UpperBounds(
         AddUpperBound(upper_bounds,
                       SuperSimplifyLin(LinScale(truncdiv(0 - coef_lcm, coef_pos[k][1]),
                                                 coef_pos[k][2]), vranges),
                       vranges),
         coef_pos, k + 1, coef_lcm, vranges)

\* Lines 1914-1927: a bound is dropped when a kept one is not less, and the kept
\* ones that are not greater than a new bound are dropped.
AddLowerBound(lower_bounds, bound, vranges) ==
  IF \E i \in 1..Len(lower_bounds) : CanProveLE(bound, lower_bounds[i], vranges)
  THEN lower_bounds
  ELSE Append(SelectSeq(lower_bounds, LAMBDA o : ~CanProveLE(o, bound, vranges)), bound)

RECURSIVE LowerBounds(_, _, _, _, _)
\* Lines 1911-1928.
LowerBounds(lower_bounds, coef_neg, k, coef_lcm, vranges) ==
  IF k > Len(coef_neg) THEN lower_bounds
  ELSE LowerBounds(
         AddLowerBound(lower_bounds,
                       SuperSimplifyLin(LinScale(truncdiv(0 - coef_lcm, coef_neg[k][1]),
                                                 coef_neg[k][2]), vranges),
                       vranges),
         coef_neg, k + 1, coef_lcm, vranges)

RECURSIVE SortUnique(_)
\* Lines 1931-1934: std::sort with ExprLess followed by std::unique.
SortUnique(bounds) ==
  IF bounds = <<>> THEN <<>>
  ELSE LET S == SeqToSet(bounds)
           m == CHOOSE e \in S : \A f \in S : LinCompare(e, f) <= 0
       IN <<m>> \o SortUnique(SelectSeq(bounds, LAMBDA e : e # m))

\* Lines 1810-1821: the bounds that the range of v gives.
ClassifyStart(st, v, vranges) ==
  [new_current |-> <<>>,
   coef_pos |-> IF v \in DOMAIN vranges
                THEN <<(<<1, LinConst(0 - (vranges[v][1] + vranges[v][2] - 1))>>)>>
                ELSE <<>>,
   coef_neg |-> IF v \in DOMAIN vranges
                THEN <<(<<0 - 1, LinConst(vranges[v][1])>>)>>
                ELSE <<>>,
   rest |-> st.rest]

\* Lines 1936-1964: the bounds found in both lists are the equalities.
VarBounds(coef_lcm, upper_bounds, lower_bounds) ==
  [coef |-> coef_lcm,
   lower |-> SelectSeq(lower_bounds, LAMBDA e : e \notin SeqToSet(upper_bounds)),
   equal |-> SelectSeq(upper_bounds, LAMBDA e : e \in SeqToSet(lower_bounds)),
   upper |-> SelectSeq(upper_bounds, LAMBDA e : e \notin SeqToSet(lower_bounds))]

\* Lines 1887-1934.
BoundsWithLcm(cls, coef_lcm, vranges) ==
  VarBounds(coef_lcm,
            SortUnique(UpperBounds(<<>>, cls.coef_pos, 1, coef_lcm, vranges)),
            SortUnique(LowerBounds(<<>>, cls.coef_neg, 1, coef_lcm, vranges)))

\* Lines 1863-1965 after the classification cls.
SolveClassified(st, v, cls, vranges) ==
  [current |-> Combine(cls.new_current, cls.coef_pos, cls.coef_neg, 1, 1, vranges),
   rest |-> cls.rest,
   bounds |-> (v :> BoundsWithLcm(cls, LcmOfCoefs(LcmOfCoefs(1, cls.coef_pos, 1),
                                                   cls.coef_neg, 1), vranges))
                @@ st.bounds]

\* Lines 1806-1965 for one variable v: st holds current, rest and bounds.
SolveForVariable(st, v, vranges) ==
  SolveClassified(st, v,
                  Classify(st.current, 1, v, vranges, ClassifyStart(st, v, vranges)), vranges)

\* Lines 1973-1983 on the simplified formulas.
OtherConditionsOf(simp, rest) ==
  IF \E k \in 1..Len(simp) : simp[k] = CondBool(FALSE)
  THEN <<CondBool(FALSE)>>
  ELSE SelectSeq(simp, LAMBDA c : c # CondBool(TRUE)) \o rest

\* Lines 1967-1984.
OtherConditions(st, vranges) ==
  OtherConditionsOf([k \in 1..Len(st.current) |-> SuperSimplifyCond(st.current[k], vranges)],
                    st.rest)

RECURSIVE SolveForVariables(_, _, _, _)
SolveForVariables(st, variables, k, vranges) ==
  IF k > Len(variables) THEN st
  ELSE SolveForVariables(SolveForVariable(st, variables[k], vranges), variables, k + 1, vranges)

InequalitiesStart(inequalities, vranges) ==
  [current |-> AddInequalities(<<>>, inequalities, 1, vranges),
   rest |-> <<>>, bounds |-> EmptyMap]

InequalitiesResult(st, variables, vranges) ==
  [variables |-> variables, bounds |-> st.bounds,
   other_conditions |-> OtherConditions(st, vranges)]

\* Lines 1741-1985.
SolveSystemOfInequalities(inequalities, variables, vranges) ==
  InequalitiesResult(
    SolveForVariables(InequalitiesStart(inequalities, vranges), variables, 1, vranges),
    variables, vranges)

RECURSIVE BoundsAsConditions(_, _)
BoundsAsConditions(res, k) ==
  IF k > Len(res.variables) THEN <<>>
  ELSE LET v == res.variables[k]
           bnds == res.bounds[v]
           lhs == LinScale(bnds.coef, LinVar(v))
       IN [i \in 1..Len(bnds.equal) |-> <<"EQ", LinSub(lhs, bnds.equal[i])>>]
            \o [i \in 1..Len(bnds.lower) |-> <<"LE", LinSub(bnds.lower[i], lhs)>>]
            \o [i \in 1..Len(bnds.upper) |-> <<"LE", LinSub(lhs, bnds.upper[i])>>]
            \o BoundsAsConditions(res, k + 1)

\* Lines 1716-1737.
as_conditions(res) == BoundsAsConditions(res, 1) \o res.other_conditions

(***************************************************************************)
(* DeskewDomain.                                                           *)
(***************************************************************************)
\* Lines 1708-1714.
VarBoundsSubstitute(bnd, subst) ==
  [coef |-> bnd.coef,
   lower |-> [i \in 1..Len(bnd.lower) |-> LinSubst(bnd.lower[i], subst)],
   equal |-> [i \in 1..Len(bnd.equal) |-> LinSubst(bnd.equal[i], subst)],
   upper |-> [i \in 1..Len(bnd.upper) |-> LinSubst(bnd.upper[i], subst)]]

RECURSIVE SortExprs(_)
\* std::sort with ExprLess.
SortExprs(exprs) ==
  IF exprs = <<>> THEN <<>>
  ELSE LET S == SeqToSet(exprs)
           m == CHOOSE e \in S : \A f \in S : LinCompare(e, f) <= 0
           first == CHOOSE i \in 1..Len(exprs) : exprs[i] = m /\ \A j \in 1..(i - 1) : exprs[j] # m
       IN <<m>> \o SortExprs(RemoveAt(exprs, first))

\* Lines 2104-2108.
ChooseBest(best, low_divided, diff_over) ==
  IF diff_over - best[2] < 0 THEN <<low_divided, diff_over>> ELSE best

\* Lines 2098-2102.
ChooseDiffOver(best, low_divided, diff_over_1, diff_over_2) ==
  ChooseBest(best, low_divided,
             IF diff_over_2 - diff_over_1 < 0 THEN diff_over_2 ELSE diff_over_1)

\* Lines 2080-2096.
ConsiderDivided(best, low_divided, low, upp, coef, vranges, new_var_intsets) ==
  ChooseDiffOver(
    best, low_divided,
    EvalSet(SuperSimplifyLin(MkFloorDiv(LinSub(upp, low), coef), vranges), new_var_intsets)[2],
    EvalSet(SuperSimplifyLin(LinSub(MkFloorDiv(upp, coef), low_divided), vranges),
            new_var_intsets)[2])

\* Lines 2076-2109 for one pair of bounds: best is <<best_lower, best_diff_over>>.
ConsiderPair(best, low, upp, coef, vranges, new_var_intsets) ==
  ConsiderDivided(best,
                  SuperSimplifyLin(MkFloorDiv(LinAddConst(low, coef - 1), coef), vranges),
                  low, upp, coef, vranges, new_var_intsets)

RECURSIVE BestPair(_, _, _, _, _, _, _, _)
\* Lines 2071-2111.
BestPair(best, lowers, uppers, i, j, coef, vranges, new_var_intsets) ==
  IF i > Len(lowers) THEN best
  ELSE IF j > Len(uppers)
  THEN BestPair(best, lowers, uppers, i + 1, 1, coef, vranges, new_var_intsets)
  ELSE BestPair(ConsiderPair(best, lowers[i], uppers[j], coef, vranges, new_var_intsets),
                lowers, uppers, i, j + 1, coef, vranges, new_var_intsets)

\* Lines 1995-2026; outer are the variables of the ranges that are not variables
\* of the domain.
DeskewStartWithOuter(domain, outer) ==
  [solved_system |-> SolveSystemOfInequalities(domain.conditions, domain.variables \o outer,
                                               domain.ranges),
   res_old_to_new |-> EmptyMap,
   res_new_to_old |-> EmptyMap,
   res_variables |-> <<>>,
   res_ranges |-> [v \in SeqToSet(outer) |-> domain.ranges[v]],
   vranges |-> domain.ranges,
   new_var_intsets |-> RangesToIntSets(domain.ranges),
   processed |-> 0,
   replaced |-> EmptyMap]

\* Lines 1995-2026.
DeskewStart(domain) ==
  DeskewStartWithOuter(domain, SortedVars(DOMAIN domain.ranges \ SeqToSet(domain.variables)))

\* Lines 2034-2037, 2049 and 2119: var is replaced with value; replaced records
\* what each processed variable was replaced with.
DeskewReplaced(st, var, bnd, how, value) ==
  [st EXCEPT !.solved_system = [@ EXCEPT !.bounds = (var :> bnd) @@ @],
             !.res_old_to_new = (var :> value) @@ @,
             !.processed = @ + 1,
             !.replaced = (var :> how) @@ @]

\* Lines 2121-2143: var is replaced with new_var + best_lower.
DeskewNewVar(st, var, bnd, new_var, best_lower, range) ==
  [DeskewReplaced(st, var, bnd,
                  [how |-> "new_var", new_var |-> new_var,
                   best_lower |-> best_lower, range |-> range],
                  LinAdd(LinVar(new_var), best_lower))
     EXCEPT
       !.res_new_to_old =
          (new_var :> SuperSimplifyLin(
                        LinSub(LinVar(var), LinSubst(best_lower, st.res_new_to_old)),
                        st.vranges)) @@ @,
       !.new_var_intsets = (new_var :> <<0, range[2] - 1>>) @@ @,
       !.res_variables = Append(@, new_var),
       !.res_ranges = (new_var :> range) @@ @,
       !.vranges = (new_var :> range) @@ @]

\* DeskewWithBest giving the new variable a range that starts at one.
DeskewWithBestRangeFromOne(st, var, bnd, new_var, best) ==
  IF best[2] = 0 THEN DeskewReplaced(st, var, bnd, [how |-> "lower"], best[1])
  ELSE DeskewNewVar(st, var, bnd, new_var, best[1], <<1, best[2] + 1>>)

\* Lines 2113-2144: best is <<best_lower, best_diff_over>>.
DeskewWithBest(st, var, bnd, new_var, best) ==
  IF best[2] = 0 THEN DeskewReplaced(st, var, bnd, [how |-> "lower"], best[1])
  ELSE DeskewNewVar(st, var, bnd, new_var, best[1], <<0, best[2] + 1>>)

\* Lines 2044-2144 with the bounds of var over the new variables.
DeskewWithBounds(st, var, bnd, new_var) ==
  IF bnd.coef = 1 /\ bnd.equal # <<>>
  THEN DeskewReplaced(st, var, bnd, [how |-> "equal"], bnd.equal[1])
  ELSE DeskewWithBest(
         st, var, bnd, new_var,
         BestPair(<<LinConst(st.vranges[var][1]), st.vranges[var][2] - 1>>,
                  SortExprs(bnd.equal \o bnd.lower), SortExprs(bnd.equal \o bnd.upper),
                  1, 1, bnd.coef, st.vranges, st.new_var_intsets))

\* Lines 2030-2145 for the variable at position k; its copy is the variable fresh + k - 1.
DeskewVariable(st, domain, k, fresh) ==
  DeskewWithBounds(st, domain.variables[k],
                   VarBoundsSubstitute(st.solved_system.bounds[domain.variables[k]],
                                       st.res_old_to_new),
                   fresh + k - 1)

Reverse(seq) == [i \in 1..Len(seq) |-> seq[Len(seq) + 1 - i]]

DeskewFinishWithoutConditions(domain, st) ==
  DomainTransformationNode(
    DomainNode(Reverse(st.res_variables), <<>>, st.res_ranges),
    domain, st.res_new_to_old, st.res_old_to_new)

\* Lines 2148-2153: the original conditions with the variables substituted.
DeskewConditions(old_conds, st) ==
  SelectSeq([i \in 1..Len(old_conds) |->
               SuperSimplifyCond(CondSubst(old_conds[i], st.res_old_to_new), st.vranges)],
            LAMBDA c : c # CondBool(TRUE))

\* Lines 2147-2160.
DeskewFinish(domain, st) ==
  DomainTransformationNode(
    DomainNode(Reverse(st.res_variables),
               DeskewConditions(as_conditions(st.solved_system), st), st.res_ranges),
    domain, st.res_new_to_old, st.res_old_to_new)

RECURSIVE DeskewVariables(_, _, _, _)
\* The variables are processed in the reverse direction.
DeskewVariables(st, domain, k, fresh) ==
  IF k = 0 THEN st
  ELSE DeskewVariables(DeskewVariable(st, domain, k, fresh), domain, k - 1, fresh)

\* Lines 1989-2161; fresh is the first unused variable.
DeskewDomain(domain, fresh) ==
  DeskewFinish(domain, DeskewVariables(DeskewStart(domain), domain, Len(domain.variables), fresh))

(***************************************************************************)
(* SimplifyDomain and ExtractAsTensorMaybe.                                *)
(***************************************************************************)
RECURSIVE SortUniqueConds(_)
\* FactorOutAtomicFormulas(...).to_array() on a conjunction of atomic
\* conditions: the conditions as a sorted set.
SortUniqueConds(conds) ==
  IF conds = <<>> THEN <<>>
  ELSE LET S == SeqToSet(conds)
           m == CHOOSE c \in S : \A d \in S : CondCompare(c, d) <= 0
       IN <<m>> \o SortUniqueConds(SelectSeq(conds, LAMBDA c : c # m))

\* Lines 1228-1249 for conditions without division and modulo, where
\* EliminateDivMod changes nothing and adds no variables.
EliminateDivModFromDomainConditions(domain) ==
  LET id == [v \in SeqToSet(domain.variables) |-> LinVar(v)]
  IN DomainTransformationNode(
       DomainNode(domain.variables, SortUniqueConds(domain.conditions), domain.ranges),
       domain, id, id)

\* Lines 2186-2189.
DeskewSolved(solved, fresh) ==
  ComposeDomainTransformations(solved, DeskewDomain(solved.new_domain, fresh))

\* Lines 2180-2190, one iteration of the loop. The variables a step creates are
\* numbered from the next multiple of ten.
SolveAndDeskew(transf, fresh) ==
  DeskewSolved(
    ComposeDomainTransformations(transf, SolveSystemOfEquations(transf.new_domain, fresh)),
    fresh + 10)

\* Lines 2171-2175.
EliminateIfAsked(id, eliminate_div_mod) ==
  IF eliminate_div_mod
  THEN ComposeDomainTransformations(id, EliminateDivModFromDomainConditions(id.new_domain))
  ELSE id

\* Lines 2165-2193; fresh is the first unused variable.
SimplifyDomain(domain, eliminate_div_mod, fresh) ==
  SolveAndDeskew(
    SolveAndDeskew(EliminateIfAsked(IdDomainTransformation(domain), eliminate_div_mod), fresh),
    fresh + 20)

\* The expressions given to ExtractAsTensorMaybe: an index expression
\* <<"Index", e>>, a tensor access <<"Call", name, args>> with index expressions
\* as arguments, and a sum <<"Add", a, b>>.
\* The sum of two simplified expressions.
AddExprs(a, b) ==
  IF a[1] = "Index" /\ b[1] = "Index" THEN <<"Index", LinAdd(a[2], b[2])>>
  ELSE IF a = <<"Index", LinConst(0)>> THEN b
  ELSE IF b = <<"Index", LinConst(0)>> THEN a
  ELSE <<"Add", a, b>>

RECURSIVE ExprSubstitute(_, _, _)
\* SuperSimplify(Substitute(expr, subst), vranges).
ExprSubstitute(expr, subst, vranges) ==
  CASE expr[1] = "Index" -> <<"Index", SuperSimplifyLin(LinSubst(expr[2], subst), vranges)>>
    [] expr[1] = "Call" ->
         <<"Call", expr[2],
           [i \in 1..Len(expr[3]) |-> SuperSimplifyLin(LinSubst(expr[3][i], subst), vranges)]>>
    [] expr[1] = "Add" ->
         AddExprs(ExprSubstitute(expr[2], subst, vranges),
                  ExprSubstitute(expr[3], subst, vranges))

RECURSIVE ExprVars(_)
ExprVars(expr) ==
  CASE expr[1] = "Index" -> LinVars(expr[2])
    [] expr[1] = "Call" -> UNION {LinVars(expr[3][i]) : i \in 1..Len(expr[3])}
    [] expr[1] = "Add" -> ExprVars(expr[2]) \cup ExprVars(expr[3])

ExprUseVar(expr, var) == var \in ExprVars(expr)

RECURSIVE Product(_)
Product(seq) == IF seq = <<>> THEN 1 ELSE Head(seq) * Product(Tail(seq))

\* Lines 2245-2251.
ExtractWithNewExpr(res, new_expr) ==
  [res |-> res, new_expr |-> new_expr,
   used_res_variables |->
     SelectSeq(res.new_domain.variables, LAMBDA var : ExprUseVar(new_expr, var))]

\* Lines 2241-2251.
ExtractWithRes(expr, res) ==
  ExtractWithNewExpr(res, ExprSubstitute(expr, res.old_to_new, res.new_domain.ranges))

\* Lines 2236-2251: the simplified domain, new_expr and used_res_variables.
ExtractPrepare(expr, cond, outer_axis, vranges, fresh) ==
  ExtractWithRes(expr,
                 SimplifyDomain(DomainNode(outer_axis, SortUniqueConds(cond), vranges),
                                TRUE, fresh))

\* Lines 2268-2276.
OldVolume(outer_axis, vranges) ==
  Product([i \in 1..Len(outer_axis) |-> vranges[outer_axis[i]][2]])
NewVolume(prep) ==
  Product([i \in 1..Len(prep.used_res_variables) |->
             prep.res.new_domain.ranges[prep.used_res_variables[i]][2]])

CanProveVolumeSmaller(prep, outer_axis, vranges) ==
  OldVolume(outer_axis, vranges) < NewVolume(prep)

\* Line 2280.
CanProveVolumeNotGreater(prep, outer_axis, vranges) ==
  OldVolume(outer_axis, vranges) <= NewVolume(prep)

\* Lines 2284-2294: the call to the tensor made of new_expr over the used variables.
ExtractedTensorCall(prep) ==
  <<"Call", "extracted_tensor",
    [i \in 1..Len(prep.used_res_variables) |-> prep.res.new_to_old[prep.used_res_variables[i]]]>>

(***************************************************************************)
(* NonzeronessCondition applied to one expression.                         *)
(***************************************************************************)
NzX == Var("x", "int")
NzY == Var("y", "int")
NzP == Var("p", "bool")

NzLeaves == {IntImm(0), IntImm(MaxVal), NzX, NzY, Call("a", <<NzX>>, "int")}
NzCoreLeaves == {IntImm(0), NzX, NzY}
NzConds == {NzP, BinOp("EQ", NzX, NzY)}

NzOver(S, T) ==
  {BinOp(op, a, b) : op \in ArithOps, a \in S, b \in T}
    \cup {Select(c, a, b) : c \in NzConds, a \in S, b \in T}
    \cup {if_then_else(c, a, b) : c \in NzConds, a \in S, b \in T}
    \cup {Cast("int64", a) : a \in S}

NzLevel1 == NzOver(NzLeaves, NzLeaves) \cup {Cast("int", c) : c \in NzConds}
NzCore1 == NzOver(NzCoreLeaves, {IntImm(0), NzX}) \cup {Cast("int", NzP)}
NzLevel2 == NzOver(NzCore1, {IntImm(0), NzY}) \cup NzOver({IntImm(0), NzY}, NzCore1)

NzInputs == NzLeaves \cup NzConds \cup NzLevel1 \cup NzLevel2

NzEnvs == [x : Values, y : Values, p : {0, 1}]

InitNZ ==
  /\ nz_expr \in NzInputs
  /\ nz_res = <<>>
  /\ Idle("nz")

CallNonzeronessCondition ==
  /\ nz_res = <<>>
  /\ nz_res' = NonzeronessCondition(nz_expr)
  /\ UNCHANGED nz_expr
  /\ Frame("nz")

NextNZ == CallNonzeronessCondition

SpecNZ == InitNZ /\ [][NextNZ]_vars

\* C1: the result <<cond, value>> of NonzeronessCondition(e) satisfies
\* e == select(cond, value, 0) under every assignment of the variables on which
\* e has a value: where cond is false e is zero, where cond is true value equals e.
NzSound ==
  nz_res # <<>> =>
    \A env \in NzEnvs :
      Defined(nz_expr, env) =>
        /\ Defined(NzToExpr(nz_res), env)
        /\ Eval(NzToExpr(nz_res), env) = Eval(nz_expr, env)
        /\ Eval(nz_res[1], env) = 0 => Eval(nz_expr, env) = 0
        /\ Eval(nz_res[1], env) # 0 => Eval(nz_res[2], env) = Eval(nz_expr, env)

\* A call that lifted a condition out of a nested select: the condition is not a
\* constant, the value is a rebuilt expression, and the condition is false somewhere.
NzWitness ==
  /\ nz_res # <<>>
  /\ nz_expr[1] \in {"Add", "Mul", "FloorDiv"}
  /\ nz_res[1][1] # "UIntImm"
  /\ nz_res[2] # nz_expr
  /\ \E env \in NzEnvs : Defined(nz_expr, env) /\ Eval(nz_res[1], env) = 0

(***************************************************************************)
(* FactorOutAtomicFormulas applied to one boolean formula.                 *)
(***************************************************************************)
FaP == Var("p", "bool")
FaQ == Var("q", "bool")
FaR == BinOp("LE", NzX, IntImm(0))

FaVarAtoms == {FaP, FaQ, FaR}
FaAtoms == FaVarAtoms \cup {const_true}

FaCore1 == {BinOp(op, a, b) : op \in {"And", "Or"}, a \in FaVarAtoms, b \in FaVarAtoms}
FaLevel1 ==
  {BinOp(op, a, b) : op \in {"And", "Or", "Mul"}, a \in FaAtoms, b \in FaAtoms}
    \cup {Not(a) : a \in FaAtoms}
    \cup {Select(c, a, b) : c \in FaVarAtoms, a \in FaAtoms, b \in FaAtoms}
FaLevel2 ==
  {Not(f) : f \in FaLevel1}
    \cup {BinOp(op, f, g) : op \in {"And", "Or"}, f \in FaCore1, g \in FaCore1 \cup FaAtoms}
    \cup {Select(FaP, f, a) : f \in FaCore1, a \in FaAtoms}
FaLevel3 ==
  {Not(BinOp(op, f, g)) : op \in {"And", "Or"}, f \in FaCore1, g \in FaCore1}

FaInputs == FaAtoms \cup FaLevel1 \cup FaLevel2 \cup FaLevel3

FaEnvs == [p : {0, 1}, q : {0, 1}, x : Values]

InitFA ==
  /\ fa_expr \in FaInputs
  /\ fa_res = <<>>
  /\ Idle("fa")

CallFactorOutAtomicFormulas ==
  /\ fa_res = <<>>
  /\ fa_res' = FactorOutAtomicFormulas(fa_expr)
  /\ UNCHANGED fa_expr
  /\ Frame("fa")

NextFA == CallFactorOutAtomicFormulas

SpecFA == InitFA /\ [][NextFA]_vars

\* C2: the conjunction of the atomic formulas and the residual that
\* FactorOutAtomicFormulas(e) returns has the truth value of e under every
\* assignment of the atoms.
FaRoundTrip ==
  fa_res # <<>> =>
    \A env \in FaEnvs :
      (Eval(FaToExpr(fa_res), env) # 0) <=> (Eval(fa_expr, env) # 0)

\* A disjunction whose sides share an atom: the atom is factored out and the
\* residual is a disjunction of what is left.
FaWitness ==
  /\ fa_res # <<>>
  /\ fa_expr[1] = "Or"
  /\ Len(fa_res[1]) = 1
  /\ fa_res[2][1] = "Or"

\* C17: every atomic formula FactorOutAtomicFormulas returns is free of ||, &&
\* and ! on the top level: it is a variable, a call, a constant or a comparison.
AtomsNotLogical ==
  fa_res # <<>> =>
    \A i \in 1..Len(fa_res[1]) :
      fa_res[1][i][1] \in {"Variable", "Call", "IntImm", "UIntImm"} \cup CmpOps

(***************************************************************************)
(* SolveSystemOfEquations applied to one domain, one iteration of the      *)
(* diagonalization loop at a time. The domains have the variables x and y  *)
(* (or x alone, y being an outer variable), one outer variable o, one or   *)
(* two linear equations and possibly an inequality.                        *)
(***************************************************************************)
\* The largest absolute value of a coefficient in a checked equation.
MaxCoef == 3

EqCoefs == (0 - MaxCoef)..MaxCoef

\* a1*x + a2*y == k*o + c
Equation(a1, a2, k, c) ==
  <<"EQ", LinAdd(LinAdd(LinScale(a1, LinVar(VarX)), LinScale(a2, LinVar(VarY))),
                 LinAddConst(LinScale(0 - k, LinVar(VarO)), 0 - c))>>

EqFirst == {Equation(a1, a2, kc[1], kc[2]) :
              a1 \in EqCoefs, a2 \in EqCoefs, kc \in {<<0, 0>>, <<0, 1>>, <<1, 1>>}}
EqSecond == {Equation(a1, a2, 0, 0) : a1 \in EqCoefs, a2 \in 0..MaxCoef}
EqRest == {<<>>, <<(<<"LE", LinSub(LinVar(VarX), LinVar(VarY))>>)>>}
EqShapes ==
  {<<(<<VarX, VarY>>), (VarX :> <<0, 3>>) @@ (VarY :> <<0 - 1, 3>>) @@ (VarO :> <<0, 2>>)>>,
   <<(<<VarX, VarY>>), (VarX :> <<1, 1>>) @@ (VarY :> <<0 - 1, 3>>) @@ (VarO :> <<0, 2>>)>>,
   <<(<<VarX>>), (VarX :> <<0, 3>>) @@ (VarY :> <<0 - 1, 3>>) @@ (VarO :> <<0, 2>>)>>}

EqDomains ==
  {DomainNode(sh[1], eqs \o rest, sh[2]) :
     sh \in EqShapes, rest \in EqRest,
     eqs \in {<<e>> : e \in EqFirst} \cup {<<e1, e2>> : e1 \in EqFirst, e2 \in EqSecond}}

\* The domain { x + 2*y == 4, 0 <= x < 8, 0 <= y < 8 } over the variables x, y.
EqScenario ==
  DomainNode(<<VarX, VarY>>, <<Equation(1, 2, 0, 4)>>, (VarX :> <<0, 8>>) @@ (VarY :> <<0, 8>>))

RECURSIVE Assignments(_, _)
\* All assignments of the variables of S within their ranges.
Assignments(S, ranges) ==
  IF S = {} THEN {EmptyMap}
  ELSE LET v == CHOOSE w \in S : TRUE
       IN {(v :> k) @@ f : k \in ranges[v][1]..(ranges[v][1] + ranges[v][2] - 1),
                           f \in Assignments(S \ {v}, ranges)}

AllHold(conditions, env) == \A i \in 1..Len(conditions) : CondEval(conditions[i], env)
EvalMap(map, env) == [v \in DOMAIN map |-> LinEval(map[v], env)]
InRange(n, range) == range[1] <= n /\ n < range[1] + range[2]
RangeValues(range) == range[1]..(range[1] + range[2] - 1)

InitEQ ==
  /\ eq_domain \in EqDomains \cup {EqScenario}
  /\ eq_state = <<>>
  /\ eq_pc = "start"
  /\ eq_res = <<>>
  /\ Idle("eq")

\* Lines 1382-1418.
SolveStart ==
  /\ eq_pc = "start"
  /\ eq_state' = SolveSetup(eq_domain)
  /\ eq_pc' = "diagonalize"
  /\ UNCHANGED <<eq_domain, eq_res>>
  /\ Frame("eq")

\* Lines 1421-1582, one iteration.
SolveDiagonalize ==
  /\ eq_pc = "diagonalize"
  /\ DiagonalizeContinues(eq_state, Len(eq_domain.variables))
  /\ eq_state' = DiagonalizeStep(eq_state, Len(eq_domain.variables))
  /\ UNCHANGED <<eq_domain, eq_pc, eq_res>>
  /\ Frame("eq")

\* Lines 1584-1705.
SolveReturn ==
  /\ eq_pc = "diagonalize"
  /\ ~DiagonalizeContinues(eq_state, Len(eq_domain.variables))
  /\ eq_res' = SolveFinish(eq_domain, eq_state, 10)
  /\ eq_pc' = "done"
  /\ UNCHANGED <<eq_domain, eq_state>>
  /\ Frame("eq")

NextEQ == SolveStart \/ SolveDiagonalize \/ SolveReturn

SpecEQ == InitEQ /\ [][NextEQ]_vars

\* C3: SolveSystemOfEquations is sound from new to old. For every assignment of
\* the new and the outer variables within the ranges of the returned new_domain
\* that satisfies all its conditions, the values old_to_new gives to the old
\* variables satisfy every condition of the old domain and lie in the old ranges.
SolveSoundNewToOld ==
  eq_pc = "done" =>
    \A env \in Assignments(DOMAIN eq_res.new_domain.ranges, eq_res.new_domain.ranges) :
      AllHold(eq_res.new_domain.conditions, env) =>
        LET old == EvalMap(eq_res.old_to_new, env)
        IN /\ \A v \in DOMAIN old : InRange(old[v], eq_domain.ranges[v])
           /\ AllHold(eq_domain.conditions, old @@ env)

\* A system with both a free and a solved column, divided by a coefficient other
\* than 1 or -1, whose new domain has a solution.
SolveSoundWitness ==
  /\ eq_pc = "done"
  /\ eq_res.new_domain.variables # <<>>
  /\ \E j \in 1..Len(eq_state.matrix) :
       j <= Len(eq_domain.variables) /\ Abs(eq_state.matrix[j][j]) > 1
  /\ \E env \in Assignments(DOMAIN eq_res.new_domain.ranges, eq_res.new_domain.ranges) :
       AllHold(eq_res.new_domain.conditions, env)

\* C4: SolveSystemOfEquations loses no solution. For every assignment of the old
\* and the outer variables within the old ranges that satisfies all conditions of
\* the old domain, the values new_to_old gives to the new variables lie in the new
\* ranges and satisfy every condition of the new domain, and old_to_new maps them
\* back to the same old assignment.
SolveLosesNoSolution ==
  eq_pc = "done" =>
    \A env \in Assignments(DOMAIN eq_domain.ranges, eq_domain.ranges) :
      AllHold(eq_domain.conditions, env) =>
        LET new == EvalMap(eq_res.new_to_old, env)
            outer == [v \in DOMAIN eq_domain.ranges \ SeqToSet(eq_domain.variables) |-> env[v]]
        IN /\ \A v \in DOMAIN new : InRange(new[v], eq_res.new_domain.ranges[v])
           /\ AllHold(eq_res.new_domain.conditions, new @@ outer)
           /\ \A v \in DOMAIN eq_res.old_to_new :
                LinEval(eq_res.old_to_new[v], new @@ outer) = env[v]

\* A system solved with xgcd (a column combination changed the matrix) whose old
\* domain has a solution.
SolveLosesNoSolutionWitness ==
  /\ eq_pc = "done"
  /\ eq_res.new_domain.variables # <<>>
  /\ \E v \in DOMAIN eq_res.new_to_old : Len(eq_res.new_to_old[v][2]) > 1
  /\ \E env \in Assignments(DOMAIN eq_domain.ranges, eq_domain.ranges) :
       AllHold(eq_domain.conditions, env)

\* The values of the new variable n0 of the solved scenario, within the range
\* recorded for it, at which every condition of the new domain holds.
ScenarioSolutions ==
  {n \in RangeValues(eq_res.new_domain.ranges[eq_res.new_domain.variables[1]]) :
     AllHold(eq_res.new_domain.conditions, (eq_res.new_domain.variables[1] :> n))}

\* The solved scenario has one new variable n0 with the range r, x = 4 + sx*n0
\* and y = sy*n0 for every n0 in r.
ScenarioSolvedAs(r, sx, sy) ==
  /\ Len(eq_res.new_domain.variables) = 1
  /\ eq_res.new_domain.ranges[eq_res.new_domain.variables[1]] = r
  /\ \A n \in RangeValues(r) :
       /\ LinEval(eq_res.old_to_new[VarX], (eq_res.new_domain.variables[1] :> n)) = 4 + sx * n
       /\ LinEval(eq_res.old_to_new[VarY], (eq_res.new_domain.variables[1] :> n)) = sy * n

\* C13 as stated: SolveSystemOfEquations on x, y in [0, 8) with x + 2*y == 4
\* yields one new variable n0 with x = 4 - 2*n0, y = n0 and the range [0, 3) for n0.
ScenarioIntersectedRange ==
  (eq_pc = "done" /\ eq_domain = EqScenario) => ScenarioSolvedAs(<<0, 3>>, 0 - 2, 1)

\* C13: SolveSystemOfEquations on x, y in [0, 8) with x + 2*y == 4 yields one new
\* variable n0 with x = 4 + 2*n0, y = -n0; the range recorded for n0 is [-7, 1),
\* the interval of -y over the range of y, not intersected with the range of x,
\* which is kept as a condition: the conditions hold exactly for n0 in [-2, 1).
ScenarioRangeOfNewToOld ==
  (eq_pc = "done" /\ eq_domain = EqScenario) =>
    /\ ScenarioSolvedAs(<<0 - 7, 8>>, 2, 0 - 1)
    /\ eq_res.new_to_old[eq_res.new_domain.variables[1]] = LinScale(0 - 1, LinVar(VarY))
    /\ ScenarioSolutions = (0 - 2)..0

\* The scenario has been solved.
ScenarioSolvedWitness ==
  /\ eq_pc = "done"
  /\ eq_domain = EqScenario
  /\ eq_res.new_domain.variables # <<>>

(***************************************************************************)
(* SolveSystemOfInequalities applied to one system over x, y and o, one    *)
(* variable at a time.                                                     *)
(***************************************************************************)
\* The largest absolute value of a coefficient in a checked inequality.
MaxIneqCoef == 2

IqCoefs == (0 - MaxIneqCoef)..MaxIneqCoef
IqLin(a1, a2, k, c) ==
  LinAdd(LinAdd(LinScale(a1, LinVar(VarX)), LinScale(a2, LinVar(VarY))),
         LinAddConst(LinScale(k, LinVar(VarO)), c))

IqFirst == {<<(<<"LE", IqLin(a1, a2, 0, c)>>)>> : a1 \in IqCoefs, a2 \in IqCoefs, c \in {0 - 2, 1}}
IqSecond ==
  {<<>>} \cup {<<(<<"LE", IqLin(a1, a2, 0 - 1, 0)>>)>> : a1 \in IqCoefs, a2 \in 0..MaxIneqCoef}
IqThird ==
  {<<>>,
   <<(<<"EQ", IqLin(1, 1, 0, 0 - 2)>>)>>,
   <<(<<"LE", LinAdd(MkFloorMod(LinVar(VarX), 2), IqLin(0, 1, 0, 0 - 1))>>)>>}
IqVariables == {<<VarX, VarY>>, <<VarY, VarX>>, <<VarX>>}
IqRanges == (VarX :> <<0, 4>>) @@ (VarY :> <<0 - 1, 4>>) @@ (VarO :> <<0, 2>>)

IqInputs ==
  {[inequalities |-> a \o b \o c, variables |-> vs, vranges |-> IqRanges] :
     a \in IqFirst, b \in IqSecond, c \in IqThird, vs \in IqVariables}

InitIQ ==
  /\ iq_input \in IqInputs
  /\ iq_state = <<>>
  /\ iq_index = 0
  /\ iq_pc = "start"
  /\ iq_res = <<>>
  /\ Idle("iq")

\* Lines 1800-1804.
InequalitiesNormalize ==
  /\ iq_pc = "start"
  /\ iq_state' = InequalitiesStart(iq_input.inequalities, iq_input.vranges)
  /\ iq_pc' = "variables"
  /\ UNCHANGED <<iq_input, iq_index, iq_res>>
  /\ Frame("iq")

\* Lines 1806-1965, one variable.
InequalitiesVariable ==
  /\ iq_pc = "variables"
  /\ iq_index < Len(iq_input.variables)
  /\ iq_state' = SolveForVariable(iq_state, iq_input.variables[iq_index + 1], iq_input.vranges)
  /\ iq_index' = iq_index + 1
  /\ UNCHANGED <<iq_input, iq_pc, iq_res>>
  /\ Frame("iq")

\* Lines 1967-1984.
InequalitiesReturn ==
  /\ iq_pc = "variables"
  /\ iq_index = Len(iq_input.variables)
  /\ iq_res' = InequalitiesResult(iq_state, iq_input.variables, iq_input.vranges)
  /\ iq_pc' = "done"
  /\ UNCHANGED <<iq_input, iq_state, iq_index>>
  /\ Frame("iq")

NextIQ == InequalitiesNormalize \/ InequalitiesVariable \/ InequalitiesReturn

SpecIQ == InitIQ /\ [][NextIQ]_vars

\* C5: within the variable ranges the conjunction of as_conditions() of the
\* result of SolveSystemOfInequalities holds for exactly the assignments for
\* which the conjunction of the input inequalities holds, so that no pruning
\* of bounds or of neighbouring inequalities drops a constraint that the kept
\* ones do not imply.
InequalitiesEquivalent ==
  iq_pc = "done" =>
    \A env \in Assignments(DOMAIN iq_input.vranges, iq_input.vranges) :
      AllHold(iq_input.inequalities, env) <=> AllHold(as_conditions(iq_res), env)

\* A solved system where the bound of the range of a variable was pruned in
\* favour of a better one, and which some assignments within the ranges
\* satisfy and some do not.
InequalitiesWitness ==
  /\ iq_pc = "done"
  /\ \E v \in DOMAIN iq_res.bounds :
       LET b == iq_res.bounds[v]
           range_ubound == iq_input.vranges[v][1] + iq_input.vranges[v][2] - 1
       IN /\ b.upper # <<>>
          /\ b.coef > 1
          /\ LinConst(b.coef * range_ubound) \notin SeqToSet(b.upper) \cup SeqToSet(b.equal)
  /\ \E env \in Assignments(DOMAIN iq_input.vranges, iq_input.vranges) :
       AllHold(iq_input.inequalities, env)
  /\ \E env \in Assignments(DOMAIN iq_input.vranges, iq_input.vranges) :
       ~AllHold(iq_input.inequalities, env)

(***************************************************************************)
(* SolveSystemOfInequalities applied to comparisons that are not in normal *)
(* form, over the variable x without a range: a lower bound of x, an upper *)
(* bound of x and a lower bound of a multiple of x.                        *)
(***************************************************************************)
IrCompare(kind, k, c) == <<kind, LinScale(k, LinVar(VarX)), LinConst(c)>>

\* { x >= 0, x < 10, 2*x >= 5 } over x, no ranges.
IrScenario ==
  [inequalities |-> <<IrCompare("GE", 1, 0), IrCompare("LT", 1, 10), IrCompare("GE", 2, 5)>>,
   variables |-> <<VarX>>, vranges |-> EmptyMap]

IrInputs ==
  {[inequalities |-> <<IrCompare("GE", 1, lo), IrCompare(up[1], 1, up[2]), IrCompare(kd, k, c)>>,
    variables |-> <<VarX>>, vranges |-> EmptyMap] :
     lo \in {0, 1, 3}, up \in {"LT", "LE"} \X {8, 9, 10},
     kd \in {"GE", "GT"}, k \in 1..MaxIneqCoef, c \in 3..6}

InitIR ==
  /\ iq_input \in IrInputs
  /\ iq_state = <<>>
  /\ iq_index = 0
  /\ iq_pc = "start"
  /\ iq_res = <<>>
  /\ Idle("iq")

SpecIR == InitIR /\ [][NextIQ]_vars

\* The bounds found for x: coef*x is at least lower and at most upper.
IrBounds(coef, lower, upper) ==
  [coef |-> coef, lower |-> <<LinConst(lower)>>, equal |-> <<>>, upper |-> <<LinConst(upper)>>]

\* C14 as stated: on { x >= 0, x < 10, 2*x >= 5 } with the variable x and no
\* ranges SolveSystemOfInequalities gives x the bounds coef = 2, lower = {5},
\* upper = {19}, equal = {}.
ScenarioUpperFromStrict ==
  (iq_pc = "done" /\ iq_input = IrScenario) => iq_res.bounds[VarX] = IrBounds(2, 5, 19)

\* C14: on { x >= 0, x < 10, 2*x >= 5 } with the variable x and no ranges
\* SolveSystemOfInequalities gives x the bounds coef = 2, lower = {5},
\* upper = {18} (x < 10 is first normalized to x - 9 <= 0, and the bound is
\* twice 9), equal = {}; the weaker lower bound 0 is removed.
ScenarioUpperFromNormalized ==
  (iq_pc = "done" /\ iq_input = IrScenario) => iq_res.bounds[VarX] = IrBounds(2, 5, 18)

\* The scenario has been solved and x has bounds.
ScenarioBoundsWitness ==
  /\ iq_pc = "done"
  /\ iq_input = IrScenario
  /\ VarX \in DOMAIN iq_res.bounds

(***************************************************************************)
(* DeskewDomain applied to one domain over x and y (or x alone, y being an *)
(* outer variable) with one or two linear inequalities, one variable at a  *)
(* time.                                                                   *)
(***************************************************************************)
\* The largest absolute value of a coefficient in a condition of a deskewed domain.
MaxSkew == 2

DkCoefs == (0 - MaxSkew)..MaxSkew
DkLin(a1, a2, c) ==
  LinAddConst(LinAdd(LinScale(a1, LinVar(VarX)), LinScale(a2, LinVar(VarY))), c)

DkFirst == {<<(<<"LE", DkLin(a1, a2, c)>>)>> : a1 \in DkCoefs, a2 \in DkCoefs, c \in {0 - 2, 1}}
DkSecond ==
  {<<>>} \cup {<<(<<"LE", DkLin(a1, a2, c)>>)>> :
                 a1 \in DkCoefs, a2 \in DkCoefs, c \in {0 - 2, 0, 1}}
DkRanges == (VarX :> <<0, 4>>) @@ (VarY :> <<0, 4>>)
DkDomains ==
  {DomainNode(vs, a \o b, DkRanges) :
     vs \in {<<VarX, VarY>>, <<VarX>>}, a \in DkFirst, b \in DkSecond}

InitDK ==
  /\ dk_domain \in DkDomains
  /\ dk_state = <<>>
  /\ dk_pc = "start"
  /\ dk_res = <<>>
  /\ Idle("dk")

\* Lines 1995-2026.
DeskewSolve ==
  /\ dk_pc = "start"
  /\ dk_state' = DeskewStart(dk_domain)
  /\ dk_pc' = "variables"
  /\ UNCHANGED <<dk_domain, dk_res>>
  /\ Frame("dk")

\* Lines 2030-2145, one variable, from the last to the first.
DeskewReplace ==
  /\ dk_pc = "variables"
  /\ dk_state.processed < Len(dk_domain.variables)
  /\ dk_state' = DeskewVariable(dk_state, dk_domain,
                                Len(dk_domain.variables) - dk_state.processed, 20)
  /\ UNCHANGED <<dk_domain, dk_pc, dk_res>>
  /\ Frame("dk")

\* Lines 2147-2160.
DeskewReturn ==
  /\ dk_pc = "variables"
  /\ dk_state.processed = Len(dk_domain.variables)
  /\ dk_res' = DeskewFinish(dk_domain, dk_state)
  /\ dk_pc' = "done"
  /\ UNCHANGED <<dk_domain, dk_state>>
  /\ Frame("dk")

NextDK == DeskewSolve \/ DeskewReplace \/ DeskewReturn

SpecDK == InitDK /\ [][NextDK]_vars

\* The variables DeskewDomain replaced by new_v + best_lower.
DkShifted == {v \in DOMAIN dk_state.replaced : dk_state.replaced[v].how = "new_var"}

DkShiftedValue(v, env) ==
  env[dk_state.replaced[v].new_var] + LinEval(dk_state.replaced[v].best_lower, env)

\* C6 as stated: for every variable v that DeskewDomain replaces by
\* new_v + best_lower, with new_v in [0, E), and for every assignment of new_v
\* and of the other variables within their ranges, new_v + best_lower lies in
\* the original range of v.
DeskewWithinRangeOnEveryAssignment ==
  dk_pc = "done" =>
    \A v \in DkShifted :
      \A env \in Assignments(DOMAIN dk_res.new_domain.ranges, dk_res.new_domain.ranges) :
        InRange(DkShiftedValue(v, env), dk_domain.ranges[v])

\* C6, amended: for every variable v that DeskewDomain replaces by
\* new_v + best_lower and for every assignment within the ranges of the new
\* domain that also satisfies the conditions of the new domain,
\* new_v + best_lower lies in the original range of v.
DeskewWithinRangeUnderConditions ==
  dk_pc = "done" =>
    \A v \in DkShifted :
      \A env \in Assignments(DOMAIN dk_res.new_domain.ranges, dk_res.new_domain.ranges) :
        AllHold(dk_res.new_domain.conditions, env) =>
          InRange(DkShiftedValue(v, env), dk_domain.ranges[v])

\* A deskewed domain where a variable was shifted by a lower bound that depends
\* on another variable, and whose new domain has a solution.
DeskewWitness ==
  /\ dk_pc = "done"
  /\ \E v \in DkShifted : ~LinIsConst(dk_state.replaced[v].best_lower)
  /\ \E env \in Assignments(DOMAIN dk_res.new_domain.ranges, dk_res.new_domain.ranges) :
       AllHold(dk_res.new_domain.conditions, env)

(***************************************************************************)
(* ExtractAsTensorMaybe applied to one expression over the axis x, y (or x *)
(* alone) under a conjunction of one or two linear conditions.             *)
(***************************************************************************)
\* The extent of the range of a variable of the outer axis.
MaxExtent == 4

XtCall(args) == <<"Call", "A", args>>
XtExprs ==
  {XtCall(<<LinVar(VarX), LinVar(VarY)>>),
   XtCall(<<LinVar(VarX)>>),
   <<"Add", XtCall(<<LinVar(VarX)>>), <<"Index", LinVar(VarY)>>>>,
   <<"Add", XtCall(<<LinVar(VarX)>>), XtCall(<<LinVar(VarY)>>)>>,
   <<"Index", LinAdd(LinVar(VarX), LinVar(VarY))>>}

XtLin(a1, a2, c) ==
  LinAddConst(LinAdd(LinScale(a1, LinVar(VarX)), LinScale(a2, LinVar(VarY))), c)
XtFirst ==
  {<<(<<kind, XtLin(a1, a2, c)>>)>> :
     kind \in {"EQ", "LE"}, a1 \in {0 - 1, 1, 2}, a2 \in {0 - 1, 0, 1}, c \in (0 - 3)..0}
XtSecond ==
  {<<>>,
   <<(<<"LE", XtLin(0 - 1, 0, 1)>>)>>,
   <<(<<"LE", XtLin(0, 1, 0 - 2)>>)>>,
   <<(<<"EQ", XtLin(1, 0 - 1, 0)>>)>>}
XtShapes ==
  {<<(<<VarX, VarY>>), (VarX :> <<0, MaxExtent>>) @@ (VarY :> <<0, MaxExtent>>)>>,
   <<(<<VarX>>), (VarX :> <<0, MaxExtent>>) @@ (VarY :> <<0, MaxExtent>>)>>,
   <<(<<VarX, VarY>>), (VarX :> <<3, 1>>) @@ (VarY :> <<0, MaxExtent>>)>>}

XtInputs ==
  {[expr |-> e, cond |-> a \o b, outer_axis |-> sh[1], vranges |-> sh[2]] :
     e \in XtExprs, a \in XtFirst, b \in XtSecond, sh \in XtShapes}

InitXT ==
  /\ xt_input \in XtInputs
  /\ xt_prep = <<>>
  /\ xt_pc = "start"
  /\ xt_res = <<>>
  /\ Idle("xt")

\* Lines 2236-2251.
ExtractSimplify ==
  /\ xt_pc = "start"
  /\ xt_prep' = ExtractPrepare(xt_input.expr, xt_input.cond, xt_input.outer_axis,
                               xt_input.vranges, 10)
  /\ xt_pc' = "simplified"
  /\ UNCHANGED <<xt_input, xt_res>>
  /\ Frame("xt")

\* Lines 2254-2258.
ExtractReturnNewExpr ==
  /\ xt_pc = "simplified"
  /\ xt_prep.used_res_variables = <<>>
  /\ xt_res' = xt_prep.new_expr
  /\ xt_pc' = "return new_expr"
  /\ UNCHANGED <<xt_input, xt_prep>>
  /\ Frame("xt")

\* Lines 2261-2265.
ExtractReturnExprAsCall ==
  /\ xt_pc = "simplified"
  /\ xt_prep.used_res_variables # <<>>
  /\ xt_prep.new_expr[1] = "Call"
  /\ xt_res' = xt_input.expr
  /\ xt_pc' = "return expr, a call"
  /\ UNCHANGED <<xt_input, xt_prep>>
  /\ Frame("xt")

\* Lines 2268-2282.
ExtractReturnExprByVolume ==
  /\ xt_pc = "simplified"
  /\ xt_prep.used_res_variables # <<>>
  /\ xt_prep.new_expr[1] # "Call"
  /\ CanProveVolumeNotGreater(xt_prep, xt_input.outer_axis, xt_input.vranges)
  /\ xt_res' = xt_input.expr
  /\ xt_pc' = "return expr, the volume"
  /\ UNCHANGED <<xt_input, xt_prep>>
  /\ Frame("xt")

\* Lines 2284-2294.
ExtractReturnTensorCall ==
  /\ xt_pc = "simplified"
  /\ xt_prep.used_res_variables # <<>>
  /\ xt_prep.new_expr[1] # "Call"
  /\ ~CanProveVolumeNotGreater(xt_prep, xt_input.outer_axis, xt_input.vranges)
  /\ xt_res' = ExtractedTensorCall(xt_prep)
  /\ xt_pc' = "return tensor call"
  /\ UNCHANGED <<xt_input, xt_prep>>
  /\ Frame("xt")

NextXT ==
  \/ ExtractSimplify
  \/ ExtractReturnNewExpr
  \/ ExtractReturnExprAsCall
  \/ ExtractReturnExprByVolume
  \/ ExtractReturnTensorCall

SpecXT == InitXT /\ [][NextXT]_vars

XtReturned == xt_res # <<>>
XtOldVolume == OldVolume(xt_input.outer_axis, xt_input.vranges)
XtNewVolume == NewVolume(xt_prep)

CtLin(a1, a2, c) ==
  LinAddConst(LinAdd(LinScale(a1, LinVar(VarX)), LinScale(a2, LinVar(VarY))), c)
CtFirst ==
  {<<(<<kind, CtLin(a1, a2, c)>>)>> :
     kind \in {"EQ", "LE"}, a1 \in {1, 2}, a2 \in {0 - 1, 0, 1}, c \in {0 - 2, 0}}
CtSecond ==
  {<<>>,
   <<(<<"LE", CtLin(0 - 1, 0, 1)>>)>>,
   <<(<<"LE", CtLin(1, 1, 0 - 4)>>)>>,
   <<(<<"EQ", CtLin(1, 0 - 2, 0)>>)>>}
CtRanges ==
  {(VarX :> <<0, MaxExtent>>) @@ (VarY :> <<0, MaxExtent>>),
   (VarX :> <<0, MaxExtent>>) @@ (VarY :> <<2, 1>>)}
CtDomains ==
  {DomainNode(<<VarX, VarY>>, a \o b, r) : a \in CtFirst, b \in CtSecond, r \in CtRanges}

\* The transformations the pass makes of a domain.
CtSteps(domain, fresh) ==
  {SolveSystemOfEquations(domain, fresh), DeskewDomain(domain, fresh),
   IdDomainTransformation(domain), EmptyDomainTransformation(domain)}

CtChains ==
  UNION {UNION {{[a |-> a, b |-> b, c |-> c] : c \in CtSteps(b.new_domain, 30)} :
                  b \in CtSteps(a.new_domain, 20)} :
           a \in UNION {CtSteps(d, 10) : d \in CtDomains}}

InitCT ==
  /\ ct_chain \in CtChains
  /\ ct_res = <<>>
  /\ Idle("ct")

\* t composed with the identity on either side.
ComposeWithId ==
  /\ ct_res = <<>>
  /\ \E t \in {ct_chain.a, ct_chain.b, ct_chain.c} :
       ct_res' = [op |-> "id", t |-> t,
                  left |-> ComposeDomainTransformations(
                             IdDomainTransformation(t.old_domain), t),
                  right |-> ComposeDomainTransformations(
                              t, IdDomainTransformation(t.new_domain))]
  /\ UNCHANGED ct_chain
  /\ Frame("ct")

\* a, b and c composed in both groupings.
ComposeThree ==
  /\ ct_res = <<>>
  /\ ct_res' = [op |-> "three",
                left |-> ComposeDomainTransformations(
                           ComposeDomainTransformations(ct_chain.a, ct_chain.b), ct_chain.c),
                right |-> ComposeDomainTransformations(
                            ct_chain.a, ComposeDomainTransformations(ct_chain.b, ct_chain.c))]
  /\ UNCHANGED ct_chain
  /\ Frame("ct")

\* t composed with the empty transformation of its new domain.
ComposeWithEmpty ==
  /\ ct_res = <<>>
  /\ \E t \in {ct_chain.a, ct_chain.b, ct_chain.c} :
       ct_res' = [op |-> "empty", t |-> t,
                  composed |-> ComposeDomainTransformations(
                                 t, EmptyDomainTransformation(t.new_domain))]
  /\ UNCHANGED ct_chain
  /\ Frame("ct")

NextCT == ComposeWithId \/ ComposeThree \/ ComposeWithEmpty

SpecCT == InitCT /\ [][NextCT]_vars

\* The values a variable is given where assignments are not limited to ranges.
CtWindow == (0 - 1)..MaxExtent

MapVars(m) == UNION {LinVars(m[v]) : v \in DOMAIN m}
WindowAssignments(S) == Assignments(S, [v \in S |-> <<0 - 1, MaxExtent + 2>>])

\* Two maps have the same keys and values equal under every assignment.
SameMapsEverywhere(m1, m2) ==
  /\ DOMAIN m1 = DOMAIN m2
  /\ \A env \in WindowAssignments(MapVars(m1) \cup MapVars(m2)) :
       \A v \in DOMAIN m1 : LinEval(m1[v], env) = LinEval(m2[v], env)

\* Two maps have the same keys and values equal under every assignment within ranges.
SameMapsWithin(m1, m2, ranges) ==
  /\ DOMAIN m1 = DOMAIN m2
  /\ MapVars(m1) \cup MapVars(m2) \subseteq DOMAIN ranges
  /\ \A env \in Assignments(DOMAIN ranges, ranges) :
       \A v \in DOMAIN m1 : LinEval(m1[v], env) = LinEval(m2[v], env)

SameTransformationEverywhere(t1, t2) ==
  /\ t1.old_domain = t2.old_domain
  /\ t1.new_domain = t2.new_domain
  /\ SameMapsEverywhere(t1.new_to_old, t2.new_to_old)
  /\ SameMapsEverywhere(t1.old_to_new, t2.old_to_new)

SameTransformationWithin(t1, t2) ==
  /\ t1.old_domain = t2.old_domain
  /\ t1.new_domain = t2.new_domain
  /\ SameMapsWithin(t1.new_to_old, t2.new_to_old, t1.old_domain.ranges)
  /\ SameMapsWithin(t1.old_to_new, t2.old_to_new, t1.new_domain.ranges)

\* C8 as stated: composed with the identity on either side, a transformation t
\* keeps its old_domain and new_domain and its maps new_to_old and old_to_new,
\* with the same keys and equal values.
ComposeIdIsUnit ==
  ct_res # <<>> /\ ct_res.op = "id" =>
    /\ SameTransformationEverywhere(ct_res.left, ct_res.t)
    /\ SameTransformationEverywhere(ct_res.right, ct_res.t)

\* C8, amended: composed with the identity on either side, a transformation t
\* keeps its old_domain and new_domain and the keys of its maps, and the values
\* of the maps are equal under every assignment within the ranges of the domain
\* whose variables they are over.
ComposeIdIsUnitWithinRanges ==
  ct_res # <<>> /\ ct_res.op = "id" =>
    /\ SameTransformationWithin(ct_res.left, ct_res.t)
    /\ SameTransformationWithin(ct_res.right, ct_res.t)

\* A transformation with new variables and non-constant maps was composed with
\* the identity.
ComposeIdWitness ==
  /\ ct_res # <<>> /\ ct_res.op = "id"
  /\ ct_res.t.new_domain.variables # <<>>
  /\ \E v \in DOMAIN ct_res.t.old_to_new : ~LinIsConst(ct_res.t.old_to_new[v])
  /\ \E v \in DOMAIN ct_res.t.new_to_old : Len(ct_res.t.new_to_old[v][2]) > 1

\* C9: composition is associative. Compose(Compose(a, b), c) and
\* Compose(a, Compose(b, c)) have the same old_domain and new_domain, and maps
\* with the same keys and with values equal under every assignment.
ComposeAssociative ==
  ct_res # <<>> /\ ct_res.op = "three" =>
    SameTransformationEverywhere(ct_res.left, ct_res.right)

\* Two maps have the same keys and values equal under every assignment within
\* the ranges of a domain that satisfies the conditions of the domain.
SameMapsOnDomain(m1, m2, domain) ==
  /\ DOMAIN m1 = DOMAIN m2
  /\ MapVars(m1) \cup MapVars(m2) \subseteq DOMAIN domain.ranges
  /\ \A env \in Assignments(DOMAIN domain.ranges, domain.ranges) :
       AllHold(domain.conditions, env) =>
         \A v \in DOMAIN m1 : LinEval(m1[v], env) = LinEval(m2[v], env)

\* C9, amended: Compose(Compose(a, b), c) and Compose(a, Compose(b, c)) have
\* the same old_domain and new_domain, and maps with the same keys; the values
\* of new_to_old are equal under every assignment within the ranges of the old
\* domain, and the values of old_to_new under every assignment within the
\* ranges of the new domain that satisfies its conditions.
ComposeAssociativeOnDomain ==
  ct_res # <<>> /\ ct_res.op = "three" =>
    /\ ct_res.left.old_domain = ct_res.right.old_domain
    /\ ct_res.left.new_domain = ct_res.right.new_domain
    /\ SameMapsWithin(ct_res.left.new_to_old, ct_res.right.new_to_old,
                      ct_res.left.old_domain.ranges)
    /\ SameMapsOnDomain(ct_res.left.old_to_new, ct_res.right.old_to_new,
                        ct_res.left.new_domain)

\* Three transformations that all change the variables were composed, into a
\* domain that is not empty.
ComposeAssociativeWitness ==
  /\ ct_res # <<>> /\ ct_res.op = "three"
  /\ ct_chain.a.new_domain.variables # <<>>
  /\ ct_chain.c.new_domain.variables # <<>>
  /\ ct_chain.a.new_domain # ct_chain.a.old_domain
  /\ ct_chain.b.new_domain # ct_chain.b.old_domain
  /\ ct_chain.c.new_domain # ct_chain.c.old_domain
  /\ \E v \in DOMAIN ct_res.left.old_to_new : ~LinIsConst(ct_res.left.old_to_new[v])
  /\ \E env \in Assignments(DOMAIN ct_res.left.new_domain.ranges,
                             ct_res.left.new_domain.ranges) :
       AllHold(ct_res.left.new_domain.conditions, env)

\* C10 as stated: Compose(t, Empty(t.new_domain)) equals Empty(t.old_domain):
\* its new_domain has no variables and the conditions {false}, its new_to_old is
\* empty, and every variable of t.old_domain maps to a zero constant.
ComposeEmptyIsEmpty ==
  ct_res # <<>> /\ ct_res.op = "empty" =>
    ct_res.composed = EmptyDomainTransformation(ct_res.t.old_domain)

\* C10, amended: Compose(t, Empty(t.new_domain)) has the old_domain of t, a
\* new_domain with no variables and the conditions {false}, an empty new_to_old,
\* and an old_to_new that maps every variable of t.old_domain to the value of
\* t.old_to_new where the variables of t.new_domain are zero.
ComposeEmptyAbsorbs ==
  ct_res # <<>> /\ ct_res.op = "empty" =>
    LET t == ct_res.t
        zero == [v \in SeqToSet(t.new_domain.variables) |-> 0]
    IN /\ ct_res.composed.old_domain = t.old_domain
       /\ ct_res.composed.new_domain = DomainNode(<<>>, <<CondBool(FALSE)>>, EmptyMap)
       /\ ct_res.composed.new_to_old = EmptyMap
       /\ DOMAIN ct_res.composed.old_to_new = SeqToSet(t.old_domain.variables)
       /\ \A env \in WindowAssignments(MapVars(t.old_to_new)) :
            \A v \in DOMAIN t.old_to_new :
              LinEval(ct_res.composed.old_to_new[v], env) = LinEval(t.old_to_new[v], zero @@ env)

\* A transformation whose old_to_new uses a new variable was composed with the
\* empty transformation.
ComposeEmptyWitness ==
  /\ ct_res # <<>> /\ ct_res.op = "empty"
  /\ \E v \in DOMAIN ct_res.t.old_to_new :
       LinVars(ct_res.t.old_to_new[v]) \cap SeqToSet(ct_res.t.new_domain.variables) # {}

(***************************************************************************)
(* SimplifyDomain applied to one domain over x and y, one composed step at *)
(* a time, and then applied again to the new_domain it returned.           *)
(***************************************************************************)
SdLin(a1, a2, c) ==
  LinAddConst(LinAdd(LinScale(a1, LinVar(VarX)), LinScale(a2, LinVar(VarY))), c)
SdFirst ==
  {<<(<<kind, SdLin(a1, a2, c)>>)>> :
     kind \in {"EQ", "LE"}, a1 \in {0 - 1, 1, 2}, a2 \in {0 - 1, 0, 1}, c \in (0 - 3)..0}
SdSecond ==
  {<<>>,
   <<(<<"LE", SdLin(0 - 1, 0, 1)>>)>>,
   <<(<<"LE", SdLin(1, 1, 0 - 4)>>)>>,
   <<(<<"EQ", SdLin(1, 0 - 2, 0)>>)>>}
SdShapes ==
  {<<(<<VarX, VarY>>), (VarX :> <<0, MaxExtent>>) @@ (VarY :> <<0, MaxExtent>>)>>,
   <<(<<VarX>>), (VarX :> <<0, MaxExtent>>) @@ (VarY :> <<0, MaxExtent>>)>>,
   <<(<<VarX, VarY>>), (VarX :> <<0, MaxExtent>>) @@ (VarY :> <<2, 1>>)>>}

SdInputs ==
  {[domain |-> DomainNode(sh[1], a \o b, sh[2]), eliminate_div_mod |-> flag, fresh |-> 10] :
     a \in SdFirst, b \in SdSecond, sh \in SdShapes, flag \in BOOLEAN}

\* A composed step: its name, the domain it was applied to and the new_domain it gave.
SdStep(name, tr) == [step |-> name, from |-> tr.old_domain, to |-> tr.new_domain]

SimplifyLoopOnce(i) == i < 1

\* Line 2180: the condition of the loop.
SimplifyLoopContinues(i) == i < 2

InitSD ==
  /\ sd_input \in SdInputs
  /\ sd_transf = <<>>
  /\ sd_i = 0
  /\ sd_pc = "start"
  /\ sd_steps = <<>>
  /\ sd_first = <<>>
  /\ Idle("sd")

\* Line 2171.
SimplifyIdentity ==
  /\ sd_pc = "start"
  /\ sd_transf' = IdDomainTransformation(sd_input.domain)
  /\ sd_steps' = <<SdStep("identity", IdDomainTransformation(sd_input.domain))>>
  /\ sd_pc' = "eliminate"
  /\ UNCHANGED <<sd_input, sd_i, sd_first>>
  /\ Frame("sd")

\* Lines 2173-2175, eliminate_div_mod being true.
SimplifyEliminate ==
  /\ sd_pc = "eliminate"
  /\ sd_input.eliminate_div_mod
  /\ sd_transf' = ComposeDomainTransformations(
                    sd_transf, EliminateDivModFromDomainConditions(sd_transf.new_domain))
  /\ sd_steps' = Append(sd_steps,
                        SdStep("eliminate",
                               EliminateDivModFromDomainConditions(sd_transf.new_domain)))
  /\ sd_pc' = "solve"
  /\ UNCHANGED <<sd_input, sd_i, sd_first>>
  /\ Frame("sd")

\* Line 2173, eliminate_div_mod being false.
SimplifyKeepDivMod ==
  /\ sd_pc = "eliminate"
  /\ ~sd_input.eliminate_div_mod
  /\ sd_pc' = "solve"
  /\ UNCHANGED <<sd_input, sd_transf, sd_i, sd_steps, sd_first>>
  /\ Frame("sd")

\* Lines 2180-2183. The variables the steps of round i create are numbered from
\* fresh + 20 * i and fresh + 20 * i + 10.
SimplifySolve ==
  /\ sd_pc = "solve"
  /\ SimplifyLoopContinues(sd_i)
  /\ sd_transf' = ComposeDomainTransformations(
                    sd_transf,
                    SolveSystemOfEquations(sd_transf.new_domain, sd_input.fresh + 20 * sd_i))
  /\ sd_steps' = Append(sd_steps,
                        SdStep("solve",
                               SolveSystemOfEquations(sd_transf.new_domain,
                                                      sd_input.fresh + 20 * sd_i)))
  /\ sd_pc' = "deskew"
  /\ UNCHANGED <<sd_input, sd_i, sd_first>>
  /\ Frame("sd")

\* Lines 2188-2189 and the increment of line 2180.
SimplifyDeskew ==
  /\ sd_pc = "deskew"
  /\ sd_transf' = ComposeDomainTransformations(
                    sd_transf,
                    DeskewDomain(sd_transf.new_domain, sd_input.fresh + 20 * sd_i + 10))
  /\ sd_steps' = Append(sd_steps,
                        SdStep("deskew",
                               DeskewDomain(sd_transf.new_domain,
                                            sd_input.fresh + 20 * sd_i + 10)))
  /\ sd_i' = sd_i + 1
  /\ sd_pc' = "solve"
  /\ UNCHANGED <<sd_input, sd_first>>
  /\ Frame("sd")

\* Line 2192.
SimplifyReturn ==
  /\ sd_pc = "solve"
  /\ ~SimplifyLoopContinues(sd_i)
  /\ sd_pc' = "done"
  /\ UNCHANGED <<sd_input, sd_transf, sd_i, sd_steps, sd_first>>
  /\ Frame("sd")

\* SimplifyDomain is called again, on the new_domain the first call returned.
SimplifyAgain ==
  /\ sd_pc = "done"
  /\ sd_first = <<>>
  /\ sd_first' = sd_transf
  /\ sd_input' = [domain |-> sd_transf.new_domain,
                  eliminate_div_mod |-> sd_input.eliminate_div_mod,
                  fresh |-> sd_input.fresh + 40]
  /\ sd_transf' = <<>>
  /\ sd_i' = 0
  /\ sd_steps' = <<>>
  /\ sd_pc' = "start"
  /\ Frame("sd")

NextSD ==
  \/ SimplifyIdentity
  \/ SimplifyEliminate
  \/ SimplifyKeepDivMod
  \/ SimplifySolve
  \/ SimplifyDeskew
  \/ SimplifyReturn
  \/ SimplifyAgain

SpecSD == InitSD /\ [][NextSD]_vars

\* The outer variables of a domain: those with a range that are not its variables.
OuterVars(domain) == DOMAIN domain.ranges \ SeqToSet(domain.variables)

\* An assignment of the variables of d2 as the assignment env of the variables
\* of d1, the k-th variable of d2 taking the value of the k-th variable of d1.
SdRenamed(env, d1, d2) ==
  [v \in DOMAIN d2.ranges |->
     IF v \in SeqToSet(d2.variables)
     THEN env[d1.variables[CHOOSE k \in 1..Len(d2.variables) : d2.variables[k] = v]]
     ELSE env[v]]

\* d2 is d1 up to the renaming of the k-th variable of d1 into the k-th of d2: as
\* many variables, the same ranges, and conditions that hold of the same assignments.
SdSameUpToRenaming(d1, d2) ==
  /\ Len(d2.variables) = Len(d1.variables)
  /\ OuterVars(d2) = OuterVars(d1)
  /\ \A v \in OuterVars(d1) : d2.ranges[v] = d1.ranges[v]
  /\ \A k \in 1..Len(d1.variables) : d2.ranges[d2.variables[k]] = d1.ranges[d1.variables[k]]
  /\ \A env \in Assignments(DOMAIN d1.ranges, d1.ranges) :
       AllHold(d1.conditions, env) <=> AllHold(d2.conditions, SdRenamed(env, d1, d2))

SdExpectedSteps(eliminate_div_mod) ==
  <<"identity">> \o (IF eliminate_div_mod THEN <<"eliminate">> ELSE <<>>)
    \o <<"solve", "deskew", "solve", "deskew">>

SdStepNames == [k \in 1..Len(sd_steps) |-> sd_steps[k].step]

\* C12: SimplifyDomain composes, in this order, the identity on d, the
\* elimination of div and mod from the conditions (only when eliminate_div_mod
\* is true), and then exactly two rounds of SolveSystemOfEquations followed by
\* DeskewDomain, each step applied to the new_domain the previous one gave; the
\* old_domain of the result is d and its new_domain is that of the second
\* DeskewDomain.
SimplifyComposesInOrder ==
  /\ sd_pc # "" =>
       /\ Len(sd_steps) <= Len(SdExpectedSteps(sd_input.eliminate_div_mod))
       /\ SdStepNames = SubSeq(SdExpectedSteps(sd_input.eliminate_div_mod), 1, Len(sd_steps))
       /\ \A k \in 2..Len(sd_steps) : sd_steps[k].from = sd_steps[k - 1].to
  /\ sd_pc = "done" =>
       /\ SdStepNames = SdExpectedSteps(sd_input.eliminate_div_mod)
       /\ sd_steps[1].from = sd_input.domain
       /\ sd_transf.old_domain = sd_input.domain
       /\ sd_transf.new_domain = sd_steps[Len(sd_steps)].to
       /\ sd_steps[Len(sd_steps)].step = "deskew"

\* A call with eliminate_div_mod returned after a round in which both
\* SolveSystemOfEquations and DeskewDomain changed the domain.
SimplifyComposesWitness ==
  /\ sd_pc = "done"
  /\ sd_first = <<>>
  /\ sd_input.eliminate_div_mod
  /\ \E k \in 1..Len(sd_steps) : sd_steps[k].step = "solve" /\ sd_steps[k].from # sd_steps[k].to
  /\ \E k \in 1..Len(sd_steps) : sd_steps[k].step = "deskew" /\ sd_steps[k].from # sd_steps[k].to
  /\ sd_transf.new_domain.variables # <<>>

(***************************************************************************)
(* EliminateDivMod on expression trees. The state of the mutator is a      *)
(* record of substitution, new_variables, conditions, ranges, expr_to_vars *)
(* (a sequence of <<mode, e, val, div, mod>>) and idx.                     *)
(***************************************************************************)
DivModOps == {"Div", "Mod", "FloorDiv", "FloorMod"}

\* Lines 974-979.
DivMode(op) == IF op \in {"Div", "Mod"} THEN "kTruncDiv" ELSE "kFloorDiv"

\* Lines 981-997.
ModImpl(a, b, mode) == IF mode = "kTruncDiv" THEN BinOp("Mod", a, b) ELSE BinOp("FloorMod", a, b)
DivImpl(a, b, mode) == IF mode = "kTruncDiv" THEN BinOp("Div", a, b) ELSE BinOp("FloorDiv", a, b)

\* Substitute on expression trees: sub maps variable names to expressions.
RECURSIVE Substitute(_, _)
Substitute(e, sub) ==
  CASE e[1] \in {"IntImm", "UIntImm"} -> e
    [] e[1] = "Variable" -> IF e[2] \in DOMAIN sub THEN sub[e[2]] ELSE e
    [] e[1] = "Not" -> Not(Substitute(e[2], sub))
    [] e[1] = "Cast" -> Cast(e[2], Substitute(e[3], sub))
    [] e[1] = "Select" ->
         Select(Substitute(e[2], sub), Substitute(e[3], sub), Substitute(e[4], sub))
    [] e[1] = "Call" -> Call(e[2], [i \in 1..Len(e[3]) |-> Substitute(e[3][i], sub)], e[4])
    [] OTHER -> BinOp(e[1], Substitute(e[2], sub), Substitute(e[3], sub))

\* The interval of the truncated quotient and remainder by d > 0.
IntervalTruncDiv(i, d) == <<truncdiv(i[1], d), truncdiv(i[2], d)>>
IntervalTruncMod(i, d) ==
  IF i[1] >= 0 THEN IntervalMod(i, d)
  ELSE IF i[2] <= 0 THEN IntervalScale(0 - 1, IntervalMod(IntervalScale(0 - 1, i), d))
  ELSE <<0 - (d - 1), d - 1>>
IntervalMul(a, b) ==
  <<Min2(Min2(a[1] * b[1], a[1] * b[2]), Min2(a[2] * b[1], a[2] * b[2])),
    Max2(Max2(a[1] * b[1], a[1] * b[2]), Max2(a[2] * b[1], a[2] * b[2]))>>

\* The interval of op applied to the intervals a and b, or <<>> when it is unbounded.
IntervalOp(op, a, b) ==
  IF a = <<>> \/ b = <<>> THEN <<>>
  ELSE CASE op = "Add" -> IntervalAdd(a, b)
         [] op = "Sub" -> IntervalAdd(a, IntervalScale(0 - 1, b))
         [] op = "Mul" -> IntervalMul(a, b)
         [] op \in DivModOps /\ b[1] = b[2] /\ b[1] > 0 ->
              CASE op = "Div" -> IntervalTruncDiv(a, b[1])
                [] op = "Mod" -> IntervalTruncMod(a, b[1])
                [] op = "FloorDiv" -> IntervalDiv(a, b[1])
                [] op = "FloorMod" -> IntervalMod(a, b[1])
         [] OTHER -> <<>>

\* EvalSet on an integer expression tree: iv maps a variable name to <<lo, hi>>;
\* the result is <<>> when no bounds are known.
RECURSIVE EvalSetExpr(_, _)
EvalSetExpr(e, iv) ==
  CASE e[1] = "IntImm" -> <<e[2], e[2]>>
    [] e[1] = "Variable" -> IF e[2] \in DOMAIN iv THEN iv[e[2]] ELSE <<>>
    [] e[1] \in {"Add", "Sub", "Mul"} \cup DivModOps ->
         IntervalOp(e[1], EvalSetExpr(e[2], iv), EvalSetExpr(e[3], iv))
    [] OTHER -> <<>>

\* The mutator right after construction (lines 1006-1007, 1207-1211).
EliminateDivModMutator(ranges) ==
  [substitution |-> EmptyMap, new_variables |-> <<>>, conditions |-> <<>>,
   ranges |-> ranges, expr_to_vars |-> <<>>, idx |-> 0]

\* A lookup that finds nothing.
HasVarsNever(m, mode, e, val) == FALSE

\* expr_to_vars_.find with the deep comparison of lines 1189-1203.
HasVars(m, mode, e, val) ==
  \E k \in 1..Len(m.expr_to_vars) :
    m.expr_to_vars[k][1] = mode /\ m.expr_to_vars[k][3] = val /\ m.expr_to_vars[k][2] = e

VarsOf(m, mode, e, val) ==
  LET k == CHOOSE j \in 1..Len(m.expr_to_vars) :
             m.expr_to_vars[j][1] = mode /\ m.expr_to_vars[j][3] = val
               /\ m.expr_to_vars[j][2] = e
  IN <<m.expr_to_vars[k][4], m.expr_to_vars[k][5]>>

\* Lines 1155-1156.
DivVar(mode, idx, type) == Var((IF mode = "kTruncDiv" THEN "tdiv" ELSE "fdiv") \o ToString(idx), type)
ModVar(mode, idx, type) == Var((IF mode = "kTruncDiv" THEN "tmod" ELSE "fmod") \o ToString(idx), type)

\* The sign condition left out.
SignConditionNever(e, mod, mod_range, val) == <<>>

\* Lines 1171-1178: the condition on the sign of mod, unless the extent of the
\* range of mod is at most val.
SignCondition(e, mod, mod_range, val) ==
  IF mod_range[2] <= val THEN <<>>
  ELSE <<Select(BinOp("GE", e, IntImm(0)), BinOp("GE", mod, IntImm(0)),
                BinOp("LE", mod, IntImm(0)))>>

\* Lines 1169: mut == div*val + mod.
DefiningCondition(mut, div, mod, val) ==
  BinOp("EQ", mut, BinOp("Add", BinOp("Mul", div, IntImm(val)), mod))

\* Lines 1180-1184.
RegisterVars(m, e, mut, val, mode, div, mod) ==
  m.expr_to_vars \o <<(<<mode, e, val, div, mod>>)>>
    \o (IF e # mut THEN <<(<<mode, mut, val, div, mod>>)>> ELSE <<>>)

\* Lines 1154-1185: the pair div, mod with the ranges found for them.
AddNewVars(e, mut, val, mode, m, div_range, mod_range, div, mod) ==
  <<TRUE, <<div, mod>>,
    [substitution |->
       (div[2] :> DivImpl(Substitute(mut, m.substitution), IntImm(val), mode))
         @@ (mod[2] :> ModImpl(Substitute(mut, m.substitution), IntImm(val), mode))
         @@ m.substitution,
     new_variables |-> m.new_variables \o <<div, mod>>,
     conditions |-> m.conditions \o <<DefiningCondition(mut, div, mod, val)>>
                      \o SignCondition(e, mod, mod_range, val),
     ranges |-> (div[2] :> div_range) @@ (mod[2] :> mod_range) @@ m.ranges,
     expr_to_vars |-> RegisterVars(m, e, mut, val, mode, div, mod),
     idx |-> m.idx + 1]>>

\* Lines 1129-1152: no pair when a range cannot be inferred.
AddNewVarsInRanges(e, mut, val, mode, m, div_set, mod_set) ==
  IF div_set = <<>> \/ mod_set = <<>>
  THEN <<FALSE, <<>>, [m EXCEPT !.idx = @ + 1]>>
  ELSE AddNewVars(e, mut, val, mode, m, CoverRange(div_set), CoverRange(mod_set),
                  DivVar(mode, m.idx + 1, Type(e)), ModVar(mode, m.idx + 1, Type(e)))

\* Lines 1115-1186. The result is <<found, <<div, mod>>, mutator>>.
AddNewVarPair(e, mut, val, mode, m) ==
  IF e # mut /\ HasVars(m, mode, mut, val)
  THEN <<TRUE, VarsOf(m, mode, mut, val), m>>
  ELSE AddNewVarsInRanges(
         e, mut, val, mode, m,
         EvalSetExpr(DivImpl(mut, IntImm(val), mode), RangesToIntSets(m.ranges)),
         EvalSetExpr(ModImpl(mut, IntImm(val), mode), RangesToIntSets(m.ranges)))

\* The first of the pair for a quotient, the second for a remainder.
PairMember(op, pair) == IF op \in {"Div", "FloorDiv"} THEN pair[1] ELSE pair[2]

\* floordiv(x, -c) rewritten without negating x.
NegativeFloorDivKeepSign(a, c) == BinOp("FloorDiv", a, IntImm(c))

\* Line 1066: floordiv(x, -c) is floordiv(0 - x, c).
NegativeFloorDiv(a, c) == BinOp("FloorDiv", BinOp("Sub", make_zero(Type(a)), a), IntImm(c))

\* Line 1092: floormod(x, -c) is 0 - floormod(0 - x, c).
NegativeFloorMod(a, c) ==
  BinOp("Sub", make_zero(Type(a)), BinOp("FloorMod", BinOp("Sub", make_zero(Type(a)), a), IntImm(c)))

RECURSIVE Mutate(_, _)
\* The node op(a, b) of the mutated operands, with the mutator after both.
MutateBoth(op, ra, rb) == <<BinOp(op, ra[1], rb[1]), rb[2]>>
MutateSecond(op, ra, b) == MutateBoth(op, ra, Mutate(b, ra[2]))

\* Lines 1025-1029: the new variable, or the node on the mutated operand.
MutateWithPair(e, ra, r) ==
  IF r[1] THEN <<PairMember(e[1], r[2]), r[3]>> ELSE <<BinOp(e[1], ra[1], e[3]), r[3]>>

\* Lines 1023-1025.
MutateOperand(e, ra) ==
  MutateWithPair(e, ra, AddNewVarPair(e[2], ra[1], e[3][2], DivMode(e[1]), ra[2]))

\* Line 1014: zero minus the mutated quotient by the positive constant.
MutateNegativeDiv(type, r) == <<BinOp("Sub", make_zero(type), r[1]), r[2]>>

\* Lines 1012-1015, 1038-1041, 1064-1067, 1090-1094: a negative divisor.
MutateNegative(e, m) ==
  CASE e[1] = "Div" ->
         MutateNegativeDiv(Type(e), Mutate(BinOp("Div", e[2], IntImm(0 - e[3][2])), m))
    [] e[1] = "Mod" -> Mutate(BinOp("Mod", e[2], IntImm(0 - e[3][2])), m)
    [] e[1] = "FloorDiv" -> Mutate(NegativeFloorDiv(e[2], 0 - e[3][2]), m)
    [] e[1] = "FloorMod" -> Mutate(NegativeFloorMod(e[2], 0 - e[3][2]), m)

\* Lines 1009-1112: a division or a remainder.
MutateDivMod(e, m) ==
  IF e[3][1] = "IntImm" /\ e[3][2] # 0
  THEN IF e[3][2] < 0 THEN MutateNegative(e, m)
       ELSE IF HasVars(m, DivMode(e[1]), e[2], e[3][2])
            THEN <<PairMember(e[1], VarsOf(m, DivMode(e[1]), e[2], e[3][2])), m>>
            ELSE MutateOperand(e, Mutate(e[2], m))
  ELSE MutateSecond(e[1], Mutate(e[2], m), e[3])

MutateNot(r) == <<Not(r[1]), r[2]>>
MutateCast(type, r) == <<Cast(type, r[1]), r[2]>>
MutateSelectThird(rc, rt, rf) == <<Select(rc[1], rt[1], rf[1]), rf[2]>>
MutateSelectSecond(rc, rt, f) == MutateSelectThird(rc, rt, Mutate(f, rt[2]))
MutateSelect(rc, t, f) == MutateSelectSecond(rc, Mutate(t, rc[2]), f)

\* EliminateDivModMutator::Mutate: <<the mutated expression, the mutator after it>>.
Mutate(e, m) ==
  CASE e[1] \in {"IntImm", "UIntImm", "Variable", "Call"} -> <<e, m>>
    [] e[1] \in DivModOps -> MutateDivMod(e, m)
    [] e[1] = "Not" -> MutateNot(Mutate(e[2], m))
    [] e[1] = "Cast" -> MutateCast(e[2], Mutate(e[3], m))
    [] e[1] = "Select" -> MutateSelect(Mutate(e[2], m), e[3], e[4])
    [] OTHER -> MutateSecond(e[1], Mutate(e[2], m), e[3])

\* Lines 1216-1225.
EliminateDivModResult(r) ==
  [expr |-> r[1], substitution |-> r[2].substitution, new_variables |-> r[2].new_variables,
   conditions |-> r[2].conditions, ranges |-> r[2].ranges]

EliminateDivMod(expr, ranges) == EliminateDivModResult(Mutate(expr, EliminateDivModMutator(ranges)))

(***************************************************************************)
(* EliminateDivMod applied to one expression over the variable i, which    *)
(* has a range, and the variable j, which has none: the sum of two         *)
(* quotients or remainders by constants, or a quotient or remainder of one.*)
(***************************************************************************)
\* The largest absolute value of a constant divisor in a checked expression.
MaxDivisor == 4

EmDivisors == {d \in (0 - MaxDivisor)..MaxDivisor : Abs(d) >= 2}
EmI == Var("i", "int")
EmJ == Var("j", "int")
EmSum(op1, a1, c1, op2, a2, c2) == BinOp("Add", BinOp(op1, a1, IntImm(c1)), BinOp(op2, a2, IntImm(c2)))
EmNested(op1, c1, op2, c2) ==
  BinOp(op1, BinOp("Add", BinOp(op2, EmI, IntImm(c2)), IntImm(1)), IntImm(c1))

EmExprs ==
  {EmSum(op1, EmI, c1, op2, EmI, c2) : op1 \in DivModOps, c1 \in EmDivisors,
                                       op2 \in DivModOps, c2 \in EmDivisors}
    \cup {EmNested(op1, c1, op2, c2) : op1 \in {"Mod", "FloorDiv"}, c1 \in EmDivisors,
                                       op2 \in {"Div", "FloorMod"}, c2 \in EmDivisors}
    \cup {EmSum(op1, EmJ, c1, op2, EmI, 2) : op1 \in DivModOps, c1 \in EmDivisors,
                                             op2 \in {"Mod", "FloorDiv"}}

EmRanges == {<<0, 16>>, <<0, 8>>, <<0 - 3, 7>>, <<0 - 6, 6>>, <<2, 3>>}
EmInputs == {[expr |-> e, ranges |-> ("i" :> r)] : e \in EmExprs, r \in EmRanges}

\* The values the variable without a range takes in the checked environments.
EmJValues == {0 - 3, 2}

InitEM ==
  /\ em_input \in EmInputs
  /\ em_pc = "start"
  /\ em_res = <<>>
  /\ Idle("em")

\* Lines 1216-1225.
EliminateCall ==
  /\ em_pc = "start"
  /\ em_res' = EliminateDivMod(em_input.expr, em_input.ranges)
  /\ em_pc' = "done"
  /\ UNCHANGED em_input
  /\ Frame("em")

NextEM == EliminateCall

SpecEM == InitEM /\ [][NextEM]_vars

\* The environments of the variables of the input: i within its range.
EmEnvs == {("i" :> v) @@ ("j" :> w) : v \in RangeValues(em_input.ranges["i"]), w \in EmJValues}

\* The environments of the variables that have a range.
EmRangedEnvs == {("i" :> v) : v \in RangeValues(em_input.ranges["i"])}

\* The values the substitution gives to the new variables under env.
EmTrueValues(env) == [n \in DOMAIN em_res.substitution |-> Eval(em_res.substitution[n], env)]

\* All assignments of the new variables within the ranges inferred for them.
EmNewAssignments == Assignments(DOMAIN em_res.substitution, em_res.ranges)

\* The input is e / c + e % c in one mode, c > 0, with e in [0, n*c).
EmSharedOperand(c, mode) ==
  /\ c > 0
  /\ em_input.expr = BinOp("Add", DivImpl(EmI, IntImm(c), mode), ModImpl(EmI, IntImm(c), mode))
  /\ em_input.ranges["i"][1] = 0
  /\ em_input.ranges["i"][2] % c = 0

\* The result has the one pair div, mod for e and c and nothing else.
EmOnePair(c, div, mod) ==
  /\ em_res.new_variables = <<div, mod>>
  /\ em_res.ranges[div[2]] = <<0, em_input.ranges["i"][2] \div c>>
  /\ em_res.ranges[mod[2]] = <<0, c>>
  /\ em_res.conditions = <<BinOp("EQ", EmI, BinOp("Add", BinOp("Mul", div, IntImm(c)), mod))>>
  /\ em_res.expr = BinOp("Add", div, mod)

\* C15: for e with the range [0, n*c), c > 0, EliminateDivMod on an expression
\* with both e / c and e % c introduces one pair of fresh variables, with the
\* ranges div in [0, n) and mod in [0, c) and the single condition
\* e == div*c + mod (no sign condition), and returns the expression with the
\* subterms replaced: i/4 + i%4 with i in [0, 16) becomes div + mod.
EliminateSharesPair ==
  em_pc = "done" =>
    \A c \in EmDivisors, mode \in {"kTruncDiv", "kFloorDiv"} :
      EmSharedOperand(c, mode) => EmOnePair(c, DivVar(mode, 1, "int"), ModVar(mode, 1, "int"))

\* i/4 + i%4 with i in [0, 16) has been eliminated.
EliminateSharesPairWitness ==
  /\ em_pc = "done"
  /\ em_input.expr = EmSum("Div", EmI, 4, "Mod", EmI, 4)
  /\ em_input.ranges["i"] = <<0, 16>>
  /\ Len(em_res.new_variables) = 2

\* A divisor of the input is negative.
RECURSIVE HasNegativeDivisor(_)
HasNegativeDivisor(e) ==
  CASE e[1] \in {"IntImm", "Variable"} -> FALSE
    [] e[1] \in DivModOps -> e[3][2] < 0 \/ HasNegativeDivisor(e[2])
    [] OTHER -> HasNegativeDivisor(e[2]) \/ HasNegativeDivisor(e[3])

\* C19: the rewrites of a negative constant divisor preserve the value. For
\* every value of the variables, the expression returned for an input with
\* truncdiv(x, -c), truncmod(x, -c), floordiv(x, -c) or floormod(x, -c), c > 0,
\* has the value of the input once the new variables stand for the quotients
\* and remainders the substitution gives them: -truncdiv(x, c), truncmod(x, c),
\* floordiv(-x, c) and -floormod(-x, c).
NegativeDivisorPreservesValue ==
  (em_pc = "done" /\ HasNegativeDivisor(em_input.expr)) =>
    \A env \in EmEnvs :
      Eval(Substitute(em_res.expr, em_res.substitution), env) = Eval(em_input.expr, env)

\* floordiv(i, -c1) + floormod(i, -c2) over a range of i with both signs, where
\* the quotients by -c1 and by c1 differ, has been eliminated.
NegativeDivisorWitness ==
  /\ em_pc = "done"
  /\ \E c1 \in EmDivisors, c2 \in EmDivisors :
       /\ c1 < 0 /\ c2 < 0
       /\ em_input.expr = EmSum("FloorDiv", EmI, c1, "FloorMod", EmI, c2)
       /\ \E env \in EmEnvs : env["i"] < 0 /\ floordiv(env["i"], c1) # floordiv(env["i"], 0 - c1)
  /\ Len(em_res.new_variables) = 4

\* The assignments of the new variables within their ranges at which every
\* recorded condition holds, the old variables having the values of env.
EmSatisfying(env) ==
  {a \in EmNewAssignments :
     \A k \in 1..Len(em_res.conditions) : Eval(em_res.conditions[k], a @@ env) # 0}

\* C20: the recorded conditions and the inferred ranges determine the new
\* variables. For every value of the old variables within their ranges, exactly
\* one assignment of the pairs div, mod within the ranges inferred for them
\* satisfies the conditions e == div*c + mod and, where recorded,
\* select(e >= 0, mod >= 0, mod <= 0): the quotient and the remainder of e by c
\* in the mode of the pair.
PairsDetermined ==
  em_pc = "done" => \A env \in EmRangedEnvs : EmSatisfying(env) = {EmTrueValues(env)}

\* A truncated pair whose operand takes both signs, so that the condition on the
\* sign of mod is recorded, together with a second pair.
PairsDeterminedWitness ==
  /\ em_pc = "done"
  /\ Len(em_res.new_variables) = 4
  /\ \E k \in 1..Len(em_res.conditions) : em_res.conditions[k][1] = "Select"
  /\ \E env \in EmRangedEnvs : env["i"] < 0 /\ EmTrueValues(env)["tmod1"] < 0

(***************************************************************************)
(* ExprFreeVars. Binders are <<"Let", var, value, body>> and                *)
(* <<"Reduce", axis, source, condition>>, the axis a sequence of            *)
(* <<var, min, extent>>. A variable is identified by its name, as one Var   *)
(* node is by its address.                                                 *)
(***************************************************************************)
Let(var, value, body) == <<"Let", var, value, body>>
Reduce(axis, source, condition) == <<"Reduce", axis, source, condition>>

RECURSIVE AxisBounds(_)
\* VisitRDom: the min and the extent of each axis, in order.
AxisBounds(axis) ==
  IF axis = <<>> THEN <<>> ELSE <<Head(axis)[2], Head(axis)[3]>> \o AxisBounds(Tail(axis))

\* The children IRVisitor visits, in order.
VisitedChildren(e) ==
  CASE e[1] \in {"IntImm", "UIntImm", "Variable"} -> <<>>
    [] e[1] = "Let" -> <<e[3], e[4]>>
    [] e[1] = "Reduce" -> AxisBounds(e[2]) \o <<e[3], e[4]>>
    [] e[1] = "Not" -> <<e[2]>>
    [] OTHER -> <<e[2], e[3]>>

\* Lines 251-255.
VisitVariable(name, st) ==
  IF name \notin st.bound /\ name \notin st.free
  THEN [st EXCEPT !.free = @ \cup {name}, !.free_array = Append(@, name)]
  ELSE st

\* Lines 275-285: the variables a node binds.
BoundBy(e) ==
  CASE e[1] = "Let" -> {e[2][2]}
    [] e[1] = "Reduce" -> {e[2][i][1][2] : i \in 1..Len(e[2])}
    [] OTHER -> {}

RECURSIVE Visit(_, _)
RECURSIVE VisitAll(_, _)
\* Lines 250-285: the visitor st is a record of free_array, bound and free.
Visit(e, st) ==
  IF e[1] = "Variable" THEN VisitVariable(e[2], st)
  ELSE VisitAll(VisitedChildren(e), [st EXCEPT !.bound = @ \cup BoundBy(e)])

VisitAll(es, st) == IF es = <<>> THEN st ELSE VisitAll(Tail(es), Visit(Head(es), st))

\* Lines 309-313.
ExprFreeVars(expr) == Visit(expr, [free_array |-> <<>>, bound |-> {}, free |-> {}]).free_array

RECURSIVE FreeOccurrences(_, _)
RECURSIVE FreeOccurrencesAll(_, _)
\* The names of the free occurrences of variables in e, in the order of the
\* traversal, where the names in masked are bound around e: a Let binds its
\* variable in its body, a Reduce binds its axes in its source and condition.
FreeOccurrences(e, masked) ==
  CASE e[1] = "Variable" -> IF e[2] \in masked THEN <<>> ELSE <<e[2]>>
    [] e[1] = "Let" ->
         FreeOccurrences(e[3], masked) \o FreeOccurrences(e[4], masked \cup BoundBy(e))
    [] e[1] = "Reduce" ->
         FreeOccurrencesAll(AxisBounds(e[2]), masked)
           \o FreeOccurrencesAll(<<e[3], e[4]>>, masked \cup BoundBy(e))
    [] OTHER -> FreeOccurrencesAll(VisitedChildren(e), masked)

FreeOccurrencesAll(es, masked) ==
  IF es = <<>> THEN <<>>
  ELSE FreeOccurrences(Head(es), masked) \o FreeOccurrencesAll(Tail(es), masked)

RECURSIVE FirstOccurrences(_, _)
\* The sequence without the repetitions of an element already seen.
FirstOccurrences(seq, seen) ==
  IF seq = <<>> THEN <<>>
  ELSE IF Head(seq) \in seen THEN FirstOccurrences(Tail(seq), seen)
  ELSE <<Head(seq)>> \o FirstOccurrences(Tail(seq), seen \cup {Head(seq)})

(***************************************************************************)
(* ExprFreeVars applied to one expression over x and y: an atom, a Let, a  *)
(* Reduce over the axis y, or the sum of two of these.                     *)
(***************************************************************************)
FvX == Var("x", "int")
FvY == Var("y", "int")
FvAtoms == {FvX, FvY, IntImm(1)}
FvSums == {BinOp("Add", a, b) : a \in {FvX, FvY}, b \in FvAtoms}
FvBinders ==
  {Let(v, a, b) : v \in {FvX, FvY}, a \in FvAtoms, b \in FvAtoms \cup FvSums}
    \cup {Reduce(<<(<<FvY, IntImm(0), n>>)>>, a, BinOp("LT", b, FvX)) :
            n \in FvAtoms, a \in FvAtoms, b \in {FvY, IntImm(1)}}
FvInputs ==
  FvAtoms \cup FvSums \cup FvBinders
    \cup {BinOp("Add", a, b) : a \in FvBinders, b \in {FvX, FvY}}
    \cup {BinOp("Add", a, b) : a \in {FvX, FvY}, b \in FvBinders}

InitFV ==
  /\ fv_expr \in FvInputs
  /\ fv_pc = "start"
  /\ fv_res = <<>>
  /\ Idle("fv")

\* Lines 309-313.
CallExprFreeVars ==
  /\ fv_pc = "start"
  /\ fv_res' = ExprFreeVars(fv_expr)
  /\ fv_pc' = "done"
  /\ UNCHANGED fv_expr
  /\ Frame("fv")

NextFV == CallExprFreeVars

SpecFV == InitFV /\ [][NextFV]_vars

\* C18: ExprFreeVars returns, without duplicates and in the order of their
\* first occurrence, exactly the variables with a free occurrence in the
\* expression: a variable bound by a Let or a Reduce is masked only inside the
\* scope of the binder, and an occurrence outside, before or after the binder,
\* is reported.
FreeVarsOfScopes ==
  fv_pc = "done" => fv_res = FirstOccurrences(FreeOccurrences(fv_expr, {}), {})

(***************************************************************************)
(* OptimizeAndLiftNonzeronessConditionsImpl applied to a sum over the axis *)
(* k whose source is zero unless an equality pins k to the outer variable  *)
(* i.  The expressions are trees; SimplifyDomain works on the canonical    *)
(* form of their integer subexpressions and comparisons.                   *)
(***************************************************************************)
OlK == Var("k", "int")
OlI == Var("i", "int")

IdOfVar(name) == IF name = "k" THEN VarX ELSE VarO
VarOfId(id) ==
  CASE id = VarX -> OlK [] id = VarO -> OlI [] OTHER -> Var("n" \o ToString(id), "int")

RECURSIVE LinOfExpr(_)
\* The canonical form of a linear integer expression.
LinOfExpr(e) ==
  CASE e[1] = "IntImm" -> LinConst(e[2])
    [] e[1] = "Variable" -> LinVar(IdOfVar(e[2]))
    [] e[1] = "Add" -> LinAdd(LinOfExpr(e[2]), LinOfExpr(e[3]))
    [] e[1] = "Sub" -> LinSub(LinOfExpr(e[2]), LinOfExpr(e[3]))
    [] e[1] = "Mul" ->
         IF e[3][1] = "IntImm" THEN LinScale(e[3][2], LinOfExpr(e[2]))
         ELSE LinScale(e[2][2], LinOfExpr(e[3]))

\* A comparison or a boolean constant as a condition of a domain.
CondOfExpr(e) ==
  IF e[1] = "UIntImm" THEN CondBool(e[2] # 0)
  ELSE NormalizeComparisons(<<e[1], LinOfExpr(e[2]), LinOfExpr(e[3])>>)

RECURSIVE ExprOfLin(_)
RECURSIVE ExprOfTerms(_)
RECURSIVE ExprOfAtom(_)
\* The expression of a canonical form: the terms from left to right, then the
\* constant.
ExprOfAtom(atom) ==
  CASE atom[1] = "v" -> VarOfId(atom[2])
    [] atom[1] = "fd" -> BinOp("FloorDiv", ExprOfLin(atom[2]), IntImm(atom[3]))
    [] atom[1] = "fm" -> BinOp("FloorMod", ExprOfLin(atom[2]), IntImm(atom[3]))

ExprOfTerm(t) ==
  IF t[2] = 1 THEN ExprOfAtom(t[1]) ELSE BinOp("Mul", ExprOfAtom(t[1]), IntImm(t[2]))

ExprOfTerms(ts) ==
  IF Len(ts) = 1 THEN ExprOfTerm(ts[1])
  ELSE BinOp("Add", ExprOfTerms(SubSeq(ts, 1, Len(ts) - 1)), ExprOfTerm(ts[Len(ts)]))

ExprOfLin(e) ==
  IF e[2] = <<>> THEN IntImm(e[1])
  ELSE IF e[1] = 0 THEN ExprOfTerms(e[2])
  ELSE BinOp("Add", ExprOfTerms(e[2]), IntImm(e[1]))

ExprOfCond(c) ==
  IF c[1] = "Bool" THEN (IF c[2] THEN const_true ELSE const_false)
  ELSE BinOp(c[1], ExprOfLin(c[2]), IntImm(0))

RECURSIVE AllFrom(_, _)
AllFrom(acc, conds) ==
  IF conds = <<>> THEN acc ELSE AllFrom(OpAnd(acc, ExprOfCond(Head(conds))), Tail(conds))

\* All: the conjunction of the conditions, true for none.
All(conds) == AllFrom(const_true, conds)

\* The ranges of the axes of a Reduce or of a tensor, by variable.
RECURSIVE IterVarsToMap(_)
IterVarsToMap(axis) ==
  IF axis = <<>> THEN EmptyMap
  ELSE (IdOfVar(Head(axis)[1][2]) :> <<Head(axis)[2][2], Head(axis)[3][2]>>)
         @@ IterVarsToMap(Tail(axis))

IterVarsToVars(axis) == [n \in 1..Len(axis) |-> IdOfVar(axis[n][1][2])]

\* Lines 356-363.
RECURSIVE IterVarsToInequalities(_)
IterVarsToInequalities(axis) ==
  IF axis = <<>> THEN <<>>
  ELSE <<BinOp("GE", Head(axis)[1], Head(axis)[2]),
         BinOp("LT", Head(axis)[1], BinOp("Add", Head(axis)[2], Head(axis)[3]))>>
         \o IterVarsToInequalities(Tail(axis))

\* IterVarsFromMap.
IterVarsFromMap(variables, ranges) ==
  [n \in 1..Len(variables) |->
     <<VarOfId(variables[n]), IntImm(ranges[variables[n]][1]),
       IntImm(ranges[variables[n]][2])>>]

\* Merge: the ranges of the second map win.
Merge(a, b) == b @@ a

RECURSIVE SuperSimplifyExpr(_, _)
\* SuperSimplify on a tree under variable ranges: integer subexpressions and
\* comparisons take their canonical form, decided conditions are folded, and a
\* Reduce without axes is the select of its source under its condition (the
\* identity of the sum otherwise).
SimplifiedAnd(a, b) == IF a = b THEN a ELSE OpAnd(a, b)
SimplifiedOr(a, b) == IF a = b THEN a ELSE OpOr(a, b)
SimplifiedSelect(c, t, f) ==
  IF c = const_true THEN t ELSE IF c = const_false THEN f ELSE Select(c, t, f)

SuperSimplifyExpr(e, vranges) ==
  CASE e[1] = "UIntImm" -> e
    [] e[1] \in CmpOps -> ExprOfCond(SuperSimplifyCond(CondOfExpr(e), vranges))
    [] e[1] = "And" ->
         SimplifiedAnd(SuperSimplifyExpr(e[2], vranges), SuperSimplifyExpr(e[3], vranges))
    [] e[1] = "Or" ->
         SimplifiedOr(SuperSimplifyExpr(e[2], vranges), SuperSimplifyExpr(e[3], vranges))
    [] e[1] = "Not" -> OpNot(SuperSimplifyExpr(e[2], vranges))
    [] e[1] = "Select" ->
         SimplifiedSelect(SuperSimplifyExpr(e[2], vranges), SuperSimplifyExpr(e[3], vranges),
                          SuperSimplifyExpr(e[4], vranges))
    [] e[1] = "Call" ->
         Call(e[2], [n \in 1..Len(e[3]) |-> SuperSimplifyExpr(e[3][n], vranges)], e[4])
    [] e[1] = "Reduce" ->
         IF e[2] = <<>>
         THEN SuperSimplifyExpr(Select(e[4], e[3], IntImm(0)), vranges)
         ELSE Reduce(e[2], SuperSimplifyExpr(e[3], Merge(vranges, IterVarsToMap(e[2]))),
                     SuperSimplifyExpr(e[4], Merge(vranges, IterVarsToMap(e[2]))))
    [] OTHER -> ExprOfLin(SuperSimplifyLin(LinOfExpr(e), vranges))

\* The conditions of a domain made of a formula: its atomic formulas and the rest.
CondsOfFormula(cond) ==
  LET arr == FaToArray(FactorOutAtomicFormulas(cond))
  IN [n \in 1..Len(arr) |-> CondOfExpr(arr[n])]

\* A map from variables to canonical forms as a substitution on trees.
SubstitutionOfMap(m) ==
  [name \in {VarOfId(v)[2] : v \in DOMAIN m} |-> ExprOfLin(m[IdOfVar(name)])]

\* Lines 2203-2205.
ReductionDomain(red, outer_vranges) ==
  DomainNode(IterVarsToVars(red[2]), CondsOfFormula(red[4]),
             Merge(outer_vranges, IterVarsToMap(red[2])))

\* SimplifyReductionDomain that keeps the axes of the reduction with their
\* ranges and only adds the conditions of the simplified domain.
ReductionOverDomainKeepAxes(red, res) ==
  SuperSimplifyExpr(
    Reduce(red[2], red[3], OpAnd(red[4], All(res.new_domain.conditions))),
    EmptyMap)

\* Lines 2208-2219.
ReductionOverDomain(red, res) ==
  SuperSimplifyExpr(
    Reduce(IterVarsFromMap(res.new_domain.variables, res.new_domain.ranges),
           Substitute(red[3], SubstitutionOfMap(res.old_to_new)),
           All(res.new_domain.conditions)),
    EmptyMap)

\* Lines 2196-2223.
SimplifyReductionDomain(expr, outer_vranges) ==
  IF expr[1] = "Reduce"
  THEN ReductionOverDomain(expr, SimplifyDomain(ReductionDomain(expr, outer_vranges), TRUE, 10))
  ELSE expr

\* The expression given to ExtractAsTensorMaybe as an index expression, a
\* tensor access or a sum, and back.
RECURSIVE IndexOfExpr(_)
IndexOfExpr(e) ==
  CASE e[1] = "Call" -> <<"Call", e[2], [n \in 1..Len(e[3]) |-> LinOfExpr(e[3][n])]>>
    [] e[1] = "Add" /\ (e[2][1] = "Call" \/ e[3][1] = "Call") ->
         <<"Add", IndexOfExpr(e[2]), IndexOfExpr(e[3])>>
    [] OTHER -> <<"Index", LinOfExpr(e)>>

RECURSIVE ExprOfIndex(_)
ExprOfIndex(x) ==
  CASE x[1] = "Index" -> ExprOfLin(x[2])
    [] x[1] = "Call" -> Call(x[2], [n \in 1..Len(x[3]) |-> ExprOfLin(x[3][n])], "int")
    [] x[1] = "Add" -> BinOp("Add", ExprOfIndex(x[2]), ExprOfIndex(x[3]))

\* Lines 2254-2294: the return statements of ExtractAsTensorMaybe.
ExtractReturn(expr, prep, outer_axis, vranges) ==
  IF prep.used_res_variables = <<>> THEN ExprOfIndex(prep.new_expr)
  ELSE IF prep.new_expr[1] = "Call" THEN expr
  ELSE IF CanProveVolumeNotGreater(prep, outer_axis, vranges) THEN expr
  ELSE ExprOfIndex(ExtractedTensorCall(prep))

\* Lines 2227-2296.
ExtractAsTensorMaybe(expr, cond, outer_axis, vranges) ==
  ExtractReturn(expr,
                ExtractPrepare(IndexOfExpr(expr), CondsOfFormula(cond), outer_axis, vranges, 10),
                outer_axis, vranges)

\* Lines 942-950.
MutateAtomic_(e, known) ==
  IF SuperSimplifyExpr(e, EmptyMap) \in SeqToSet(known) THEN const_true
  ELSE SuperSimplifyExpr(e, EmptyMap)

\* The calls that are not pure: a call to an external function.
ImpureCalls == {"extern"}

\* HasSideEffect: an expression has a side effect when it contains a call that
\* is not pure.
RECURSIVE HasSideEffect(_)
HasSideEffect(e) ==
  CASE e[1] \in {"IntImm", "UIntImm", "Variable"} -> FALSE
    [] e[1] = "Call" ->
         e[2] \in ImpureCalls \/ \E n \in 1..Len(e[3]) : HasSideEffect(e[3][n])
    [] e[1] = "Not" -> HasSideEffect(e[2])
    [] e[1] = "Cast" -> HasSideEffect(e[3])
    [] e[1] = "Select" ->
         HasSideEffect(e[2]) \/ HasSideEffect(e[3]) \/ HasSideEffect(e[4])
    [] e[1] = "Reduce" -> HasSideEffect(e[3]) \/ HasSideEffect(e[4])
    [] OTHER -> HasSideEffect(e[2]) \/ HasSideEffect(e[3])

RECURSIVE RemoveRedundantInequalitiesMutator(_, _)
\* The Select case with the atomic formulas of the condition known in both
\* branches.
MutateSelectUnderBothBranches(e, new_cond, known) ==
  IF new_cond = const_true /\ ~HasSideEffect(e)
  THEN RemoveRedundantInequalitiesMutator(e[3], known)
  ELSE IF new_cond = const_false /\ ~HasSideEffect(e)
  THEN RemoveRedundantInequalitiesMutator(e[4], known)
  ELSE Select(new_cond,
              RemoveRedundantInequalitiesMutator(
                e[3], known \o FactorOutAtomicFormulas(new_cond)[1]),
              RemoveRedundantInequalitiesMutator(
                e[4], known \o FactorOutAtomicFormulas(new_cond)[1]))

\* Lines 866-883, once the condition is simplified.
MutateSelectUnder(e, new_cond, known) ==
  IF new_cond = const_true /\ ~HasSideEffect(e)
  THEN RemoveRedundantInequalitiesMutator(e[3], known)
  ELSE IF new_cond = const_false /\ ~HasSideEffect(e)
  THEN RemoveRedundantInequalitiesMutator(e[4], known)
  ELSE Select(new_cond,
              RemoveRedundantInequalitiesMutator(
                e[3], known \o FactorOutAtomicFormulas(new_cond)[1]),
              RemoveRedundantInequalitiesMutator(e[4], known))

\* Lines 885-900, once the condition of the if_then_else is simplified.
MutateIfThenElseUnder(e, new_cond, known) ==
  IF new_cond = const_true THEN RemoveRedundantInequalitiesMutator(e[3][2], known)
  ELSE IF new_cond = const_false THEN RemoveRedundantInequalitiesMutator(e[3][3], known)
  ELSE if_then_else(new_cond,
                    RemoveRedundantInequalitiesMutator(
                      e[3][2], known \o FactorOutAtomicFormulas(new_cond)[1]),
                    RemoveRedundantInequalitiesMutator(e[3][3], known))

\* Lines 860-864: the constructor simplifies every known condition.
KnownOf(conds) == [n \in 1..Len(conds) |-> SuperSimplifyExpr(conds[n], EmptyMap)]

\* Lines 907-928, once the condition is mutated under the known conditions
\* and the ranges of the axes.
MutateReduceUnder(e, new_cond, known_with_axes) ==
  Reduce(e[2],
         RemoveRedundantInequalitiesMutator(
           e[3], KnownOf(known_with_axes \o FactorOutAtomicFormulas(new_cond)[1])),
         new_cond)

\* Lines 858-953, Mutate of the mutator whose known_ is known.
RemoveRedundantInequalitiesMutator(e, known) ==
  CASE e[1] = "Select" ->
         MutateSelectUnder(
           e, SuperSimplifyExpr(RemoveRedundantInequalitiesMutator(e[2], known), EmptyMap),
           known)
    [] e[1] \in CmpOps -> MutateAtomic_(e, known)
    [] e[1] = "And" ->
         OpAnd(RemoveRedundantInequalitiesMutator(e[2], known),
               RemoveRedundantInequalitiesMutator(e[3], known))
    [] e[1] = "Call" /\ e[2] = "tvm_if_then_else" ->
         MutateIfThenElseUnder(
           e, SuperSimplifyExpr(RemoveRedundantInequalitiesMutator(e[3][1], known), EmptyMap),
           known)
    [] e[1] = "Call" /\ e[2] # "tvm_if_then_else" ->
         Call(e[2], [n \in 1..Len(e[3]) |-> RemoveRedundantInequalitiesMutator(e[3][n], known)],
              e[4])
    [] e[1] = "Reduce" ->
         MutateReduceUnder(
           e,
           RemoveRedundantInequalitiesMutator(
             e[4], KnownOf(known \o IterVarsToInequalities(e[2]))),
           known \o IterVarsToInequalities(e[2]))
    [] e[1] \in ArithOps \cup {"Or"} ->
         BinOp(e[1], RemoveRedundantInequalitiesMutator(e[2], known),
               RemoveRedundantInequalitiesMutator(e[3], known))
    [] OTHER -> e

\* Lines 957-962; the constructor (lines 860-864) simplifies the known conditions.
RemoveRedundantInequalities(expr, known) ==
  RemoveRedundantInequalitiesMutator(expr, KnownOf(known))

\* Lines 2432-2454 on an expression without a Reduce node, which the mutator
\* rebuilds as it is.
ExtractNonTopReductions(expr) == expr

RECURSIVE SumOverAxis(_, _, _)
\* The sum of the source of a Reduce over the first n points of its only axis
\* where its condition holds.
ReduceTerm(red, env) == IF Eval(red[4], env) # 0 THEN Eval(red[3], env) ELSE 0
SumOverAxis(red, env, n) ==
  IF n = 0 THEN 0
  ELSE SumOverAxis(red, env, n - 1)
         + ReduceTerm(red, (red[2][1][1][2] :> (red[2][1][2][2] + n - 1)) @@ env)

\* The value of an expression that is a Reduce over one axis or has no Reduce.
EvalTop(e, env) ==
  IF e[1] = "Reduce" THEN SumOverAxis(e, env, e[2][1][3][2]) ELSE Eval(e, env)

RECURSIVE HasReduce(_)
HasReduce(e) ==
  CASE e[1] = "Reduce" -> TRUE
    [] e[1] \in {"IntImm", "UIntImm", "Variable"} -> FALSE
    [] e[1] = "Not" -> HasReduce(e[2])
    [] e[1] = "Cast" -> HasReduce(e[3])
    [] e[1] = "Select" -> HasReduce(e[2]) \/ HasReduce(e[3]) \/ HasReduce(e[4])
    [] e[1] = "Call" -> \E n \in 1..Len(e[3]) : HasReduce(e[3][n])
    [] OTHER -> HasReduce(e[2]) \/ HasReduce(e[3])

\* The largest extent of the reduction axis, apart from the extent 100 of the
\* documented sum.
MaxAxisExtent == 4

OlExtents == {3, MaxAxisExtent, 100}

\* The point the axis is pinned to: i, i - 1 or i + 1.
OlPins == {OlI} \cup {BinOp("Add", OlI, IntImm(d)) : d \in {0 - 1, 1}}
OlConds == {BinOp("EQ", OlK, p) : p \in OlPins} \cup {BinOp("EQ", p, OlK) : p \in OlPins}

\* The sum over k in [0, n) of select(c, a[k], 0).
OlSum(n, c) ==
  Reduce(<<(<<OlK, IntImm(0), IntImm(n)>>)>>,
         Select(c, Call("a", <<OlK>>, "int"), IntImm(0)), const_true)

\* The sum over k in [0, 100) of select(k == i, a[k], 0), i without a range.
OlScenario ==
  [expr |-> OlSum(100, BinOp("EQ", OlK, OlI)), axis |-> <<>>, vranges |-> EmptyMap]

\* The ranges of i: each holds a point that the equality pins k to.
OlRanges(n) == {<<0, n>>, <<0 - 2, n + 4>>, <<1, 1>>}

\* i has no range, is an axis of the tensor, or has its range in vranges.
OlInputs ==
  UNION {{[expr |-> OlSum(n, c), axis |-> <<>>, vranges |-> EmptyMap] : c \in OlConds}
           \cup {[expr |-> OlSum(n, c), axis |-> <<(<<OlI, IntImm(r[1]), IntImm(r[2])>>)>>,
                  vranges |-> EmptyMap] : c \in OlConds, r \in OlRanges(n)}
           \cup {[expr |-> OlSum(n, c), axis |-> <<>>, vranges |-> (VarO :> r)] :
                   c \in OlConds, r \in OlRanges(n)} :
         n \in OlExtents}

InitOL ==
  /\ ol_input \in OlInputs
  /\ ol_expr = ol_input.expr
  /\ ol_pc = "start"
  /\ ol_res = <<>>
  /\ Idle("ol")

\* Line 2465.
combined_vranges == Merge(ol_input.vranges, IterVarsToMap(ol_input.axis))

\* Lines 2465-2471, of the call and of the call it makes at line 2496.
OlSimplify ==
  /\ ol_pc = "start"
  /\ ol_expr' = SuperSimplifyExpr(ol_expr, combined_vranges)
  /\ ol_pc' = IF ol_expr'[1] = "Reduce" THEN "reduce" ELSE "expr"
  /\ UNCHANGED <<ol_input, ol_res>>
  /\ Frame("ol")

\* Lines 2479-2490: the source of a sum gives its nonzeroness condition to the
\* condition of the reduction.
LiftedReduction(red, nz) == Reduce(red[2], nz[2], OpAnd(nz[1], red[4]))

\* Lines 2471-2490, for a sum.
OlLiftNonzeroness ==
  /\ ol_pc = "reduce"
  /\ ol_expr' = LiftedReduction(ol_expr, NonzeronessCondition(ol_expr[3]))
  /\ ol_pc' = "lifted"
  /\ UNCHANGED <<ol_input, ol_res>>
  /\ Frame("ol")

\* Lines 2491-2492.
OlSimplifyReductionDomain ==
  /\ ol_pc = "lifted"
  /\ ol_expr' = SimplifyReductionDomain(ol_expr, combined_vranges)
  /\ ol_pc' = "domain simplified"
  /\ UNCHANGED <<ol_input, ol_res>>
  /\ Frame("ol")

\* Lines 2494-2497: the reduction disappeared, and the call returns what it
\* makes of new_red as of a non-reduction.
OlReductionDisappeared ==
  /\ ol_pc = "domain simplified"
  /\ ol_expr[1] # "Reduce"
  /\ ol_pc' = "start"
  /\ UNCHANGED <<ol_input, ol_expr, ol_res>>
  /\ Frame("ol")

\* Lines 2530-2534.
ResultOfNonzeroness(nz, axis) ==
  SelectElseZero(nz[1],
                 ExtractAsTensorMaybe(nz[2], nz[1], IterVarsToVars(axis),
                                      Merge(ol_input.vranges, IterVarsToMap(axis))))

\* Lines 2529-2535.
OlNonReduction ==
  /\ ol_pc = "expr"
  /\ ol_expr' = ResultOfNonzeroness(NonzeronessCondition(ol_expr), ol_input.axis)
  /\ ol_pc' = "result"
  /\ UNCHANGED <<ol_input, ol_res>>
  /\ Frame("ol")

\* Lines 2539-2546.
OlReturn ==
  /\ ol_pc = "result"
  /\ ol_res' = SuperSimplifyExpr(
                 ExtractNonTopReductions(
                   RemoveRedundantInequalities(ol_expr,
                                               IterVarsToInequalities(ol_input.axis))),
                 combined_vranges)
  /\ ol_pc' = "done"
  /\ UNCHANGED <<ol_input, ol_expr>>
  /\ Frame("ol")

NextOL ==
  \/ OlSimplify
  \/ OlLiftNonzeroness
  \/ OlSimplifyReductionDomain
  \/ OlReductionDisappeared
  \/ OlNonReduction
  \/ OlReturn

SpecOL == InitOL /\ [][NextOL]_vars

\* The values of i the results are compared on: its range, or the values around
\* both ends of the axis.
OlValues ==
  IF VarO \in DOMAIN combined_vranges THEN RangeValues(combined_vranges[VarO])
  ELSE ((0 - 3)..(MaxAxisExtent + 3)) \cup (97..103)

OlEnv(i) == [name \in {"i"} |-> i]
OlAxisExtent == ol_input.expr[2][1][3][2]
OlEquality == ol_input.expr[3][2]
\* The point the equality pins k to when i is i.
OlPinned(i) ==
  Eval(IF OlEquality[2] = OlK THEN OlEquality[3] ELSE OlEquality[2], OlEnv(i))

\* select(c, a[e], 0) where c holds exactly when the pinned point is on the
\* axis and e is the pinned point.
IsSelectOfPinned(e) ==
  /\ e[1] = "Select"
  /\ e[3][1] = "Call" /\ e[3][2] = "a"
  /\ e[4] = IntImm(0)
  /\ \A i \in OlValues :
       /\ (Eval(e[2], OlEnv(i)) # 0) <=> (OlPinned(i) \in 0..(OlAxisExtent - 1))
       /\ Eval(e[3][3][1], OlEnv(i)) = OlPinned(i)

\* C16: OptimizeAndLiftNonzeronessConditions applied to the sum over k in
\* [0, N) of select(k == i, a[k], 0) leaves no reduction: after the domain of
\* the reduction is simplified no Reduce node is left, the returned expression
\* has the value of the sum for every i, and for an i without a range it is
\* select(0 <= i < N, a[i], 0).
SumPinnedToSelect ==
  /\ ol_pc = "domain simplified" => ~HasReduce(ol_expr)
  /\ ol_pc = "done" =>
       /\ ~HasReduce(ol_res)
       /\ \A i \in OlValues : Eval(ol_res, OlEnv(i)) = EvalTop(ol_input.expr, OlEnv(i))
       /\ combined_vranges = EmptyMap => IsSelectOfPinned(ol_res)

SumPinnedToSelectWitness ==
  /\ ol_pc = "done"
  /\ ol_input = OlScenario
  /\ ol_res[1] = "Select"
  /\ Eval(ol_res, OlEnv(99)) = TensorValue(99)
  /\ Eval(ol_res[2], OlEnv(100)) = 0
  /\ Eval(ol_res[2], OlEnv(0 - 1)) = 0

(***************************************************************************)
(* xgcd applied to one pair of integers, one iteration of its loop at a    *)
(* time. SolveSystemOfEquations calls it with a nonzero pivot as a.        *)
(***************************************************************************)
\* The largest absolute value of an argument of xgcd.
MaxGcdArg == 7

XgArgs == {<<a, b>> : a \in ((0 - MaxGcdArg)..MaxGcdArg) \ {0}, b \in (0 - MaxGcdArg)..MaxGcdArg}

InitXG ==
  /\ xg_args \in XgArgs
  /\ xg_state = [r |-> xg_args[2], old_r |-> xg_args[1], s |-> 0, old_s |-> 1,
                 t |-> 1, old_t |-> 0]
  /\ xg_pc = "loop"
  /\ xg_res = <<>>
  /\ Idle("xg")

\* The body of the loop that subtracts the quotient from t as well as from s
\* but leaves old_t out of the swap.
xgcdIterationKeepT(st, q) ==
  [r |-> st.old_r - q * st.r, old_r |-> st.r,
   s |-> st.old_s - q * st.s, old_s |-> st.s,
   t |-> st.t - q * st.old_t, old_t |-> st.old_t]

\* Lines 1330-1336 with q of line 1330.
xgcdIteration(st, q) ==
  [r |-> st.old_r - q * st.r, old_r |-> st.r,
   s |-> st.old_s - q * st.s, old_s |-> st.s,
   t |-> st.old_t - q * st.t, old_t |-> st.t]

\* Lines 1329-1337, one iteration.
XgcdIterate ==
  /\ xg_pc = "loop"
  /\ xg_state.r # 0
  /\ xg_state' = xgcdIteration(xg_state, truncdiv(xg_state.old_r, xg_state.r))
  /\ UNCHANGED <<xg_args, xg_pc, xg_res>>
  /\ Frame("xg")

\* Line 1329: the loop ends.
XgcdLoopEnds ==
  /\ xg_pc = "loop"
  /\ xg_state.r = 0
  /\ xg_pc' = "checks"
  /\ UNCHANGED <<xg_args, xg_state, xg_res>>
  /\ Frame("xg")

\* Lines 1339-1341: the three CHECKs on the locals st of a call with a and b.
xgcdChecksPass(a, b, st) ==
  /\ st.old_r # 0
  /\ truncmod(a, st.old_r) = 0
  /\ truncmod(b, st.old_r) = 0
  /\ st.old_r = st.old_s * a + st.old_t * b

\* Lines 1339-1343.
XgcdReturn ==
  /\ xg_pc = "checks"
  /\ xgcdChecksPass(xg_args[1], xg_args[2], xg_state)
  /\ xg_res' = <<xg_state.old_r, xg_state.old_s, xg_state.old_t>>
  /\ xg_pc' = "done"
  /\ UNCHANGED <<xg_args, xg_state>>
  /\ Frame("xg")

NextXG == XgcdIterate \/ XgcdLoopEnds \/ XgcdReturn

SpecXG == InitXG /\ [][NextXG]_vars

\* C30: the three assertions at the end of xgcd never fail for a # 0: when the
\* loop has ended the divisor old_r is nonzero, divides a and b and equals
\* old_s*a + old_t*b, and the returned (g, s, t), the value SolveSystemOfEquations
\* works with, has g # 0, g dividing a and b, and g = s*a + t*b.
XgcdAssertionsHold ==
  /\ xg_pc = "checks" => xgcdChecksPass(xg_args[1], xg_args[2], xg_state)
  /\ xg_pc = "done" =>
       /\ xg_res = xgcd(xg_args[1], xg_args[2])
       /\ xg_res[1] # 0
       /\ truncmod(xg_args[1], xg_res[1]) = 0
       /\ truncmod(xg_args[2], xg_res[1]) = 0
       /\ xg_res[1] = xg_res[2] * xg_args[1] + xg_res[3] * xg_args[2]

\* A call as SolveSystemOfEquations makes it, with a negative pivot that does
\* not divide b, has returned after more than one iteration.
XgcdAssertionsWitness ==
  /\ xg_pc = "done"
  /\ xg_args[1] < 0
  /\ truncmod(xg_args[2], xg_args[1]) # 0
  /\ Abs(xg_res[1]) < Abs(xg_args[1])
  /\ xg_res[2] # 0 /\ xg_res[3] # 0

(***************************************************************************)
(* SolveSystemOfEquations applied to systems of one to three equations     *)
(* over x, y and o, where the variables of the domain are all three, x and *)
(* y, or x alone: the matrix has fewer rows than columns, as many, or more.*)
(***************************************************************************)
\* The largest absolute value of an entry the rows of the matrices scale with.
MaxEntry == 3

MxFirstRows ==
  {<<a1, a2, a3>> : a1 \in {0, 2, 0 - MaxEntry}, a2 \in {0, MaxEntry, 0 - 2},
                    a3 \in {0, 1, MaxEntry + 2}}
MxSecondRows ==
  {<<b1, b2, b3>> : b1 \in {0, MaxEntry, 0 - 4}, b2 \in {1, 2}, b3 \in {0, 0 - MaxEntry}}
MxThirdRows == {<<c1, c2, 2>> : c1 \in {0, 6}, c2 \in {0 - 4, 5}}

\* row[1]*x + row[2]*y + row[3]*o == c
MxEquation(row, c) ==
  <<"EQ", LinAddConst(LinAdd(LinAdd(LinScale(row[1], LinVar(VarX)),
                                    LinScale(row[2], LinVar(VarY))),
                             LinScale(row[3], LinVar(VarO))), 0 - c)>>

MxSystems ==
  {<<MxEquation(r1, c)>> : r1 \in MxFirstRows, c \in {0, 1}}
    \cup {<<MxEquation(r1, c), MxEquation(r2, 0)>> :
            r1 \in MxFirstRows, c \in {0, 1}, r2 \in MxSecondRows}
    \cup {<<MxEquation(r1, c), MxEquation(r2, 0), MxEquation(r3, 0)>> :
            r1 \in MxFirstRows, c \in {0, 1}, r2 \in MxSecondRows, r3 \in MxThirdRows}

MxRanges == (VarX :> <<0, 3>>) @@ (VarY :> <<0 - 1, 3>>) @@ (VarO :> <<0, 2>>)

MxDomains ==
  {DomainNode(variables, eqs, MxRanges) :
     variables \in {<<VarX, VarY, VarO>>, <<VarX, VarY>>, <<VarX>>}, eqs \in MxSystems}

InitMX ==
  /\ eq_domain \in MxDomains
  /\ eq_state = <<>>
  /\ eq_pc = "start"
  /\ eq_res = <<>>
  /\ Idle("eq")

SpecMX == InitMX /\ [][NextEQ]_vars

\* matrix[i][j] is zero for all i # j with i < index or j < index.
PartiallyDiagonal(matrix, index) ==
  \A i \in 1..Len(matrix) : \A j \in 1..Len(matrix[i]) :
    (i # j /\ (i < index \/ j < index)) => matrix[i][j] = 0

\* C25: at the start of every iteration of the diagonalization loop the
\* matrix is partially diagonalized up to index, and when the loop has ended
\* every off-diagonal entry is zero, whether the matrix has fewer rows than
\* columns, as many, or more.
DiagonalizationInvariant ==
  eq_pc \in {"diagonalize", "done"} =>
    /\ PartiallyDiagonal(eq_state.matrix, eq_state.index)
    /\ ~DiagonalizeContinues(eq_state, Len(eq_domain.variables)) =>
         \A i \in 1..Len(eq_state.matrix) : \A j \in 1..Len(eq_state.matrix[i]) :
           i # j => eq_state.matrix[i][j] = 0

\* The loop has ended on a matrix of three rows, after an iteration for the
\* last index that started with a nonzero entry off the diagonal.
DiagonalizationWitness ==
  /\ eq_pc = "diagonalize"
  /\ Len(eq_state.matrix) = 3
  /\ Len(eq_domain.variables) = 3
  /\ ~DiagonalizeContinues(eq_state, 3)
  /\ eq_state.matrix[3][3] # 0
  /\ eq_state.matrix[2][2] # 0

\* The index never goes back, and an iteration that will be repeated for the
\* same index ends with a pivot that is nonzero and smaller in absolute value
\* than the pivot it started with, unless it started with a zero pivot.
PivotDecreases ==
  SolveDiagonalize =>
    \/ eq_state'.index = eq_state.index + 1
    \/ /\ eq_state'.index = eq_state.index
       /\ eq_state'.matrix[eq_state.index][eq_state.index] # 0
       /\ eq_state.matrix[eq_state.index][eq_state.index] # 0 =>
            Abs(eq_state'.matrix[eq_state.index][eq_state.index])
              < Abs(eq_state.matrix[eq_state.index][eq_state.index])

\* C26: the diagonalization loop terminates for every coefficient matrix. Every
\* iteration either moves on to the next index or is repeated for the same index
\* after the absolute value of the pivot has strictly decreased, also for the
\* first index, so the pair (indices left, absolute value of the pivot) is a
\* variant of the loop.
DiagonalizationTerminates == [][PivotDecreases]_vars

\* An iteration for the first index is about to be repeated: a column
\* combination with the extended gcd has changed the variable maps and index is
\* still the first one.
RepeatedFirstIndexWitness ==
  /\ eq_pc = "diagonalize"
  /\ eq_state.index = 1
  /\ \E i \in 1..Len(eq_state.old_to_new) : \E j \in 1..Len(eq_state.old_to_new) :
       i # j /\ eq_state.old_to_new[i][j] # 0
  /\ Abs(eq_state.matrix[1][1]) > 1

\* The matrix applied to the vector of the new variables, each new variable
\* given by its expression in the old ones: one linear expression per row.
MatrixTimesNewToOld(st) ==
  [r \in 1..Len(st.matrix) |-> SumColumns(st.matrix[r], st.new_to_old, 1)]

\* For every old variable i the sum over j of old_to_new[i][j] * new_to_old[j]
\* is the old variable i itself, as a linear expression in the old variables.
MapsMutuallyInverse(st, variables) ==
  \A i \in 1..Len(variables) :
    SumColumns(st.old_to_new[i], st.new_to_old, 1) = LinVar(variables[i])

\* The column swap and the column combinations of the iteration that starts in
\* st leave the product of the matrix and the variables as it was before them.
ColumnStepsKeepProduct(st, vars_size) ==
  LET index == st.index
      best_i == FindBestRow(st.matrix, index, index, index)
      swapped == [st EXCEPT !.matrix = SwapSeq(@, index, best_i),
                            !.rhs = SwapSeq(@, index, best_i)]
      st2 == SwapColumn(swapped, index, vars_size)
  IN /\ MatrixTimesNewToOld(st2) = MatrixTimesNewToOld(swapped)
     /\ st2.matrix[index][index] # 0 =>
          MatrixTimesNewToOld(ColumnPhase(RowPhase(st2, index, index + 1),
                                          index, index + 1, vars_size, FALSE)[1])
            = MatrixTimesNewToOld(RowPhase(st2, index, index + 1))

\* C27 as stated: the maps are mutually inverse and the transformed matrix
\* applied to the new variables equals the original matrix applied to the old
\* variables.
ProductEqualsOriginal ==
  eq_pc \in {"diagonalize", "done"} =>
    /\ MapsMutuallyInverse(eq_state, eq_domain.variables)
    /\ MatrixTimesNewToOld(eq_state) = MatrixTimesNewToOld(SolveSetup(eq_domain))

\* C27, amended: throughout the diagonalization the two variable maps are
\* mutually inverse, and every column swap and column combination leaves the
\* product of the matrix and the variables unchanged; the rows of the matrix are
\* also changed by the row swaps and row combinations, so the product is the
\* original one only up to these row operations.
MapsConsistentWithMatrix ==
  eq_pc \in {"diagonalize", "done"} =>
    /\ MapsMutuallyInverse(eq_state, eq_domain.variables)
    /\ DiagonalizeContinues(eq_state, Len(eq_domain.variables)) =>
         ColumnStepsKeepProduct(eq_state, Len(eq_domain.variables))

\* The diagonalization of a system over three variables has ended after a
\* column swap and a column combination: no new variable is an old one.
MapsConsistentWitness ==
  /\ eq_pc = "done"
  /\ Len(eq_domain.variables) = 3
  /\ \A j \in 1..3 : \A i \in 1..3 :
       eq_state.new_to_old[j] # LinVar(eq_domain.variables[i])
  /\ \E i \in 1..3 : \E j \in 1..3 : Abs(eq_state.old_to_new[i][j]) > 1

\* The conditions of the existence of a solution made at lines 1589-1611 from
\* the diagonalized system st of the domain.
EmittedSolvability(st, domain) ==
  SolvabilityConditions(
    st, [i \in 1..Len(st.rhs) |-> SuperSimplifyLin(st.rhs[i], domain.ranges)], domain)

\* Integer values to look for a solution in. With coefficients up to MaxCoef
\* and right-hand sides up to MaxCoef + 2 in absolute value, a solvable system of
\* the family has a solution within them.
SolutionWindow(variables) ==
  [v \in SeqToSet(variables) |-> <<0 - 3 * MaxCoef, 6 * MaxCoef + 1>>]

\* The same, a variable whose range has extent 1 taking its only value.
SolutionWindowPinned(domain) ==
  [v \in SeqToSet(domain.variables) |->
     IF domain.ranges[v][2] = 1 THEN domain.ranges[v]
     ELSE SolutionWindow(domain.variables)[v]]

\* The equations of the domain have an integer solution in its variables within
\* the window, the outer variables being as in env.
HasIntegerSolution(domain, window, env) ==
  \E sol \in Assignments(SeqToSet(domain.variables), window) :
    \A k \in 1..Len(domain.conditions) :
      domain.conditions[k][1] = "EQ" => CondEval(domain.conditions[k], sol @@ env)

\* The empty transformation is returned exactly when one of the solvability
\* conditions has simplified to the constant false.
EmptyExactlyWhenFalse ==
  (eq_res = EmptyDomainTransformation(eq_domain))
    <=> \E j \in 1..Len(eq_state.matrix) :
          EmittedSolvability(eq_state, eq_domain)[j] = CondBool(FALSE)

\* C23 as stated: for every value of the outer variables within their ranges,
\* the solvability conditions made from the diagonalized system all hold exactly
\* when the original equations have an integer solution; the empty
\* transformation is returned exactly when one of the conditions has simplified
\* to the constant false.
SolvabilityExactOverIntegers ==
  eq_pc = "done" =>
    /\ \A env \in Assignments(OuterVars(eq_domain), eq_domain.ranges) :
         AllHold(EmittedSolvability(eq_state, eq_domain), env)
           <=> HasIntegerSolution(eq_domain, SolutionWindow(eq_domain.variables), env)
    /\ EmptyExactlyWhenFalse

\* C23, amended: the same with every variable whose range has extent 1 taking
\* the only value of its range, as SuperSimplify does before the coefficients of
\* an equation are detected.
SolvabilityExact ==
  eq_pc = "done" =>
    /\ \A env \in Assignments(OuterVars(eq_domain), eq_domain.ranges) :
         AllHold(EmittedSolvability(eq_state, eq_domain), env)
           <=> HasIntegerSolution(eq_domain, SolutionWindowPinned(eq_domain), env)
    /\ EmptyExactlyWhenFalse

\* A system with a diagonal entry other than 1 and -1 whose divisibility
\* condition holds for one value of the outer variable and fails for another,
\* so that a transformation that is not empty has been returned.
SolvabilityWitness ==
  /\ eq_pc = "done"
  /\ eq_res # EmptyDomainTransformation(eq_domain)
  /\ \E j \in 1..Len(eq_state.matrix) :
       j <= Len(eq_domain.variables) /\ Abs(eq_state.matrix[j][j]) > 1
  /\ \E env \in Assignments(OuterVars(eq_domain), eq_domain.ranges) :
       AllHold(EmittedSolvability(eq_state, eq_domain), env)
  /\ \E env \in Assignments(OuterVars(eq_domain), eq_domain.ranges) :
       ~AllHold(EmittedSolvability(eq_state, eq_domain), env)

\* The empty transformation has been returned for a system with a row beyond
\* the variables whose right-hand side cannot be zero.
SolvabilityEmptyWitness ==
  /\ eq_pc = "done"
  /\ eq_res = EmptyDomainTransformation(eq_domain)
  /\ Len(eq_state.matrix) > Len(eq_domain.variables)

\* The old variables DeskewDomain replaced by the new variable nv plus a lower
\* bound.
DkOldOf(nv) == {v \in DkShifted : dk_state.replaced[v].new_var = nv}

\* C28: DeskewDomain never enlarges a domain. Every variable of the returned
\* new_domain stands for exactly one old variable and has the range [0, E) with
\* E not greater than the extent of the original range of that old variable, and
\* new_domain has at most as many variables as the input domain.
DeskewNeverEnlarges ==
  dk_pc = "done" =>
    /\ Len(dk_res.new_domain.variables) <= Len(dk_domain.variables)
    /\ \A k \in 1..Len(dk_res.new_domain.variables) :
         /\ Cardinality(DkOldOf(dk_res.new_domain.variables[k])) = 1
         /\ \A j \in 1..Len(dk_res.new_domain.variables) :
              j # k => dk_res.new_domain.variables[j] # dk_res.new_domain.variables[k]
         /\ dk_res.new_domain.ranges[dk_res.new_domain.variables[k]][1] = 0
         /\ \A v \in DkOldOf(dk_res.new_domain.variables[k]) :
              dk_res.new_domain.ranges[dk_res.new_domain.variables[k]][2]
                <= dk_domain.ranges[v][2]

\* A deskewed domain of two variables where one new variable has a smaller
\* extent than the old variable it stands for and one variable was removed or
\* kept its extent.
DeskewNeverEnlargesWitness ==
  /\ dk_pc = "done"
  /\ Len(dk_domain.variables) = 2
  /\ dk_res.new_domain.variables # <<>>
  /\ \E v \in DkShifted :
       /\ dk_res.new_domain.ranges[dk_state.replaced[v].new_var][2] < dk_domain.ranges[v][2]
       /\ dk_res.new_domain.ranges[dk_state.replaced[v].new_var][2] > 1
  /\ \E v \in SeqToSet(dk_domain.variables) :
       \/ v \notin DkShifted
       \/ dk_res.new_domain.ranges[dk_state.replaced[v].new_var][2] = dk_domain.ranges[v][2]

\* The conditions of the domain contain the constant false.
ContainsFalse(domain) ==
  \E k \in 1..Len(domain.conditions) : domain.conditions[k] = CondBool(FALSE)

\* C29: emptiness is preserved through the rest of the SimplifyDomain pipeline.
\* Once a step has produced a new_domain whose conditions contain the constant
\* false, every later step produces a new_domain whose conditions contain it,
\* and so does the new_domain of the transformation composed so far, the
\* returned one included.
EmptinessPreserved ==
  sd_pc \in {"eliminate", "solve", "deskew", "done"} =>
    \A k \in 1..Len(sd_steps) :
      ContainsFalse(sd_steps[k].to) =>
        /\ \A j \in k..Len(sd_steps) : ContainsFalse(sd_steps[j].to)
        /\ ContainsFalse(sd_transf.new_domain)

\* SimplifyDomain has returned after SolveSystemOfEquations made the empty
\* transformation from a domain that did not contain the constant false, with a
\* DeskewDomain and a SolveSystemOfEquations step after it.
EmptinessFromEquationsWitness ==
  /\ sd_pc = "done"
  /\ \E k \in 1..Len(sd_steps) :
       /\ sd_steps[k].step = "solve"
       /\ ~ContainsFalse(sd_steps[k].from)
       /\ ContainsFalse(sd_steps[k].to)
       /\ k + 2 <= Len(sd_steps)

\* The same after the inequality solver of DeskewDomain has detected a
\* contradiction.
EmptinessFromInequalitiesWitness ==
  /\ sd_pc = "done"
  /\ \E k \in 1..Len(sd_steps) :
       /\ sd_steps[k].step = "deskew"
       /\ ~ContainsFalse(sd_steps[k].from)
       /\ ContainsFalse(sd_steps[k].to)
       /\ k + 2 <= Len(sd_steps)

(***************************************************************************)
(* ImplicationNotContainingVars and LiftConditionsThroughReduction applied *)
(* to a condition over the reduction variable k and the outer variable i.  *)
(***************************************************************************)
\* ExprUseVar(expr, vars): some variable of vars occurs in expr.
RECURSIVE ExprUseVarSet(_, _)
ExprUseVarSet(e, vset) ==
  CASE e[1] = "Variable" -> e[2] \in vset
    [] e[1] \in {"IntImm", "UIntImm"} -> FALSE
    [] e[1] = "Not" -> ExprUseVarSet(e[2], vset)
    [] e[1] = "Cast" -> ExprUseVarSet(e[3], vset)
    [] e[1] = "Select" ->
         ExprUseVarSet(e[2], vset) \/ ExprUseVarSet(e[3], vset) \/ ExprUseVarSet(e[4], vset)
    [] e[1] = "Call" -> \E n \in 1..Len(e[3]) : ExprUseVarSet(e[3][n], vset)
    [] OTHER -> ExprUseVarSet(e[2], vset) \/ ExprUseVarSet(e[3], vset)

\* Lines 2303-2307: the pairs of the operands of && combined.
ImplicationOfAnd(pair_a, pair_b) ==
  <<OpAnd(pair_a[1], pair_b[1]), OpAnd(pair_a[2], pair_b[2])>>

\* The Or case with the inner conditions of the operands joined by ||.
ImplicationOfOrInnerOnly(pair_a, pair_b) ==
  <<OpOr(pair_a[1], pair_b[1]), OpOr(pair_a[2], pair_b[2])>>

\* Lines 2308-2315: the pairs of the operands of || combined.
ImplicationOfOr(pair_a, pair_b) ==
  <<OpOr(pair_a[1], pair_b[1]),
    OpAnd(OpAnd(OpOr(pair_a[1], pair_b[2]), OpOr(pair_b[1], pair_a[2])),
          OpOr(pair_a[2], pair_b[2]))>>

RECURSIVE ImplicationNotContainingVars(_, _)
\* Lines 2298-2320: <<outer, inner>>.
ImplicationNotContainingVars(cond, vset) ==
  CASE cond[1] = "And" ->
         ImplicationOfAnd(ImplicationNotContainingVars(cond[2], vset),
                          ImplicationNotContainingVars(cond[3], vset))
    [] cond[1] = "Or" ->
         ImplicationOfOr(ImplicationNotContainingVars(cond[2], vset),
                         ImplicationNotContainingVars(cond[3], vset))
    [] OTHER ->
         IF ~ExprUseVarSet(cond, vset) THEN <<cond, const_true>> ELSE <<const_true, cond>>

\* Lines 2332-2334.
LiftFactored(cond) ==
  [atomics |-> FactorOutAtomicFormulas(cond)[1], rest |-> FactorOutAtomicFormulas(cond)[2]]

\* Lines 2336-2346: the atomics solved as a system of inequalities, the
\* reduction variables first.
LiftSolved(st, red_axis, outer_axis) ==
  [st EXCEPT !.atomics =
     as_conditions(
       SolveSystemOfInequalities(
         [n \in 1..Len(st.atomics) |-> CondOfExpr(st.atomics[n])],
         IterVarsToVars(red_axis) \o IterVarsToVars(outer_axis),
         Merge(IterVarsToMap(red_axis), IterVarsToMap(outer_axis))))]

\* Lines 2349-2359.
LiftSplit(st, red_axis) ==
  ImplicationNotContainingVars(OpAnd(All(st.atomics), st.rest),
                               {red_axis[n][1][2] : n \in 1..Len(red_axis)})

\* Lines 2324-2363.
LiftConditionsThroughReduction(cond, red_axis, outer_axis) ==
  LiftSplit(LiftSolved(LiftFactored(cond), red_axis, outer_axis), red_axis)

\* The extent of the reduction axis and of the outer axis.
MaxLiftExtent == 3

LcRedAxis == <<(<<OlK, IntImm(0), IntImm(MaxLiftExtent)>>)>>
LcOuterAxis == <<(<<OlI, IntImm(0), IntImm(MaxLiftExtent)>>)>>

\* Comparisons over k and i, and atoms that are not comparisons.
LcComparisons ==
  {BinOp("LE", OlK, OlI), BinOp("LE", OlI, IntImm(1)), BinOp("EQ", OlK, OlI),
   BinOp("LE", BinOp("Add", OlK, OlI), IntImm(2)), BinOp("LE", IntImm(1), OlK)}
LcOtherAtoms ==
  {Var("p", "bool"), Not(BinOp("LE", OlK, IntImm(0))), Not(Var("q", "bool")),
   BinOp("NE", OlI, OlK)}

LcFormulas(atoms) ==
  atoms
    \cup {BinOp(op, a, b) : op \in {"And", "Or"}, a \in atoms, b \in atoms}
    \cup {BinOp(ops[1], BinOp(ops[2], a, b), c) :
            ops \in {<<"And", "Or">>, <<"Or", "And">>},
            a \in atoms, b \in atoms, c \in atoms}

LcInputs ==
  {[cond |-> c, lifted |-> TRUE] : c \in LcFormulas(LcComparisons)}
    \cup {[cond |-> c, lifted |-> FALSE] :
            c \in LcFormulas(LcOtherAtoms \cup {BinOp("LE", OlK, OlI)})}

InitLC ==
  /\ lc_input \in LcInputs
  /\ lc_state = <<>>
  /\ lc_pc = "start"
  /\ lc_res = <<>>
  /\ Idle("lc")

\* ImplicationNotContainingVars called on the condition itself.
ImplicationCall ==
  /\ lc_pc = "start"
  /\ ~lc_input.lifted
  /\ lc_res' = ImplicationNotContainingVars(lc_input.cond, {"k"})
  /\ lc_pc' = "done"
  /\ UNCHANGED <<lc_input, lc_state>>
  /\ Frame("lc")

\* Lines 2332-2334.
LiftFactor ==
  /\ lc_pc = "start"
  /\ lc_input.lifted
  /\ lc_state' = LiftFactored(lc_input.cond)
  /\ lc_pc' = "solve"
  /\ UNCHANGED <<lc_input, lc_res>>
  /\ Frame("lc")

\* Lines 2336-2346.
LiftSolve ==
  /\ lc_pc = "solve"
  /\ lc_state' = LiftSolved(lc_state, LcRedAxis, LcOuterAxis)
  /\ lc_pc' = "split"
  /\ UNCHANGED <<lc_input, lc_res>>
  /\ Frame("lc")

\* Lines 2349-2362.
LiftReturn ==
  /\ lc_pc = "split"
  /\ lc_res' = LiftSplit(lc_state, LcRedAxis)
  /\ lc_pc' = "done"
  /\ UNCHANGED <<lc_input, lc_state>>
  /\ Frame("lc")

NextLC == ImplicationCall \/ LiftFactor \/ LiftSolve \/ LiftReturn

SpecLC == InitLC /\ [][NextLC]_vars

\* The assignments the pair is compared with the condition on: every value
\* of the variables for ImplicationNotContainingVars alone, the values within
\* the axis ranges for LiftConditionsThroughReduction.
LcEnvs ==
  IF lc_input.lifted
  THEN {("k" :> a) @@ ("i" :> b) : a \in 0..(MaxLiftExtent - 1), b \in 0..(MaxLiftExtent - 1)}
  ELSE {("k" :> a) @@ ("i" :> b) @@ ("p" :> c) @@ ("q" :> d) :
          a \in Values, b \in Values, c \in {0, 1}, d \in {0, 1}}

\* C24: the pair (outer, inner) returned by ImplicationNotContainingVars for a
\* condition built from atoms with && and || is such that outer mentions no
\* variable of the given set and outer && inner has the value of the condition
\* under every assignment; the pair returned by LiftConditionsThroughReduction
\* is such that outer mentions no reduction variable and outer && inner has the
\* value of the input condition under every assignment within the axis ranges.
OuterAndInnerEquivalent ==
  lc_pc = "done" =>
    /\ ~ExprUseVarSet(lc_res[1], {"k"})
    /\ \A env \in LcEnvs :
         Eval(BinOp("And", lc_res[1], lc_res[2]), env) = Eval(lc_input.cond, env)

\* LiftConditionsThroughReduction has returned a pair with an outer condition
\* other than true and an inner condition that mentions the reduction variable,
\* for a condition with a disjunction in it.
OuterAndInnerWitness ==
  /\ lc_pc = "done"
  /\ lc_input.lifted
  /\ lc_input.cond[1] = "And"
  /\ lc_input.cond[2][1] = "Or"
  /\ lc_state.rest # const_true
  /\ lc_res[1] # const_true
  /\ ExprUseVarSet(lc_res[2], {"k"})
  /\ \E env \in LcEnvs : Eval(lc_res[1], env) = 0

\* The same for ImplicationNotContainingVars called on a disjunction whose
\* operands both have an outer and an inner part.
ImplicationOfOrWitness ==
  /\ lc_pc = "done"
  /\ ~lc_input.lifted
  /\ lc_input.cond[1] = "Or"
  /\ lc_input.cond[2][1] = "And"
  /\ lc_res[1] # const_true
  /\ lc_res[2] # const_true

(***************************************************************************)
(* RemoveRedundantInequalities (lines 856-962) on conditionals and on      *)
(* reductions over the comparisons of k and i.                             *)
(***************************************************************************)
RrAtoms ==
  {BinOp("LE", OlK, OlI), BinOp("LT", OlI, IntImm(2)), BinOp("GE", OlK, IntImm(0))}

\* Comparisons, conjunctions and a disjunction of two of them, and a
\* comparison of constants.
RrConds ==
  RrAtoms
    \cup {BinOp("And", BinOp("LE", OlK, OlI), BinOp("LT", OlI, IntImm(2))),
          BinOp("And", BinOp("GE", OlK, IntImm(0)), BinOp("LE", OlK, OlI)),
          BinOp("Or", BinOp("LE", OlK, OlI), BinOp("LT", OlI, IntImm(2))),
          BinOp("LE", IntImm(1), IntImm(0))}

RrLeaves == {Call("A", <<OlK>>, "int"), Call("extern", <<OlK>>, "int"), IntImm(0)}

RrBranches ==
  RrLeaves
    \cup {Select(a, Call("A", <<OlK>>, "int"), IntImm(0)) : a \in RrAtoms}
    \cup {if_then_else(a, Call("extern", <<OlK>>, "int"), IntImm(0)) : a \in RrAtoms}

RrConditionals ==
  {Select(c, t, f) : c \in RrConds, t \in RrBranches, f \in RrBranches}
    \cup {if_then_else(c, t, f) : c \in RrConds, t \in RrBranches, f \in RrBranches}

\* Reductions over k whose source is a conditional; the known conditions
\* given with them do not mention the reduction variable.
RrReductions ==
  {Reduce(LcRedAxis, Select(c, t, IntImm(0)), a) :
     c \in RrConds, t \in RrLeaves, a \in RrAtoms}
    \cup {Reduce(LcRedAxis, if_then_else(c, t, IntImm(0)), a) :
            c \in RrConds, t \in RrLeaves, a \in RrAtoms}

RrInputs ==
  {[expr |-> e, known |-> kn] :
     e \in RrConditionals, kn \in {<<>>} \cup {<<a>> : a \in RrAtoms}}
    \cup {[expr |-> e, known |-> kn] :
            e \in RrReductions, kn \in {<<>>, <<BinOp("LT", OlI, IntImm(2))>>}}

InitRR ==
  /\ rr_input \in RrInputs
  /\ rr_pc = "start"
  /\ rr_res = <<>>
  /\ Idle("rr")

\* Lines 957-962.
RemoveCall ==
  /\ rr_pc = "start"
  /\ rr_res' = RemoveRedundantInequalities(rr_input.expr, rr_input.known)
  /\ rr_pc' = "done"
  /\ UNCHANGED rr_input
  /\ Frame("rr")

NextRR == RemoveCall

SpecRR == InitRR /\ [][NextRR]_vars

IsConditional(e) == e[1] = "Select" \/ (e[1] = "Call" /\ e[2] = "tvm_if_then_else")

\* The condition and the branches of a Select or of an if_then_else.
CondOf(e) == IF e[1] = "Select" THEN e[2] ELSE e[3][1]
TrueOf(e) == IF e[1] = "Select" THEN e[3] ELSE e[3][2]
FalseOf(e) == IF e[1] = "Select" THEN e[4] ELSE e[3][3]

\* The conditional was collapsed: the result is not a node of its kind built
\* on its simplified condition.
Collapsed(e, res) ==
  ~(/\ IsConditional(res)
    /\ res[1] = e[1]
    /\ CondOf(res) = SuperSimplifyExpr(
                       RemoveRedundantInequalitiesMutator(CondOf(e), KnownOf(rr_input.known)),
                       EmptyMap))

\* C21: a Select or an if_then_else is collapsed to one of its branches only
\* when its condition simplifies to a constant and the expression has no side
\* effect; with side effects the conditional node is kept, for both kinds.
CollapseOnlyWithoutSideEffect ==
  (rr_pc = "done" /\ IsConditional(rr_input.expr) /\ HasSideEffect(rr_input.expr))
    => ~Collapsed(rr_input.expr, rr_res)

\* The Select half of the statement, which lines 866-872 ensure.
SelectKeptUnderSideEffect ==
  (rr_pc = "done" /\ rr_input.expr[1] = "Select" /\ HasSideEffect(rr_input.expr))
    => ~Collapsed(rr_input.expr, rr_res)

\* The assignments of k and i that satisfy every known condition.
RrEnvs ==
  {env \in {("k" :> a) @@ ("i" :> b) : a \in Values, b \in Values} :
     \A n \in 1..Len(rr_input.known) : Eval(rr_input.known[n], env) # 0}

\* The result has the value of the expression under the known conditions.
SameValueUnderKnown ==
  \A env \in RrEnvs : EvalTop(rr_res, env) = EvalTop(rr_input.expr, env)

\* In a conditional that is kept, the true branch is changed only where the
\* condition holds and the false branch is not changed by the condition at all.
BranchesUseOwnFacts ==
  (IsConditional(rr_input.expr) /\ ~Collapsed(rr_input.expr, rr_res)) =>
    \A env \in RrEnvs :
      /\ Eval(CondOf(rr_res), env) = Eval(CondOf(rr_input.expr), env)
      /\ Eval(CondOf(rr_input.expr), env) # 0
           => Eval(TrueOf(rr_res), env) = Eval(TrueOf(rr_input.expr), env)
      /\ Eval(FalseOf(rr_res), env) = Eval(FalseOf(rr_input.expr), env)

\* In a reduction, the condition is changed only within the ranges of the
\* axes and the source only where the condition holds as well.
ReduceUsesOwnFacts ==
  rr_input.expr[1] = "Reduce" =>
    \A env \in RrEnvs :
      \A k \in 0..(MaxLiftExtent - 1) :
        /\ Eval(rr_res[4], ("k" :> k) @@ env) = Eval(rr_input.expr[4], ("k" :> k) @@ env)
        /\ Eval(rr_input.expr[4], ("k" :> k) @@ env) # 0
             => Eval(rr_res[3], ("k" :> k) @@ env) = Eval(rr_input.expr[3], ("k" :> k) @@ env)

\* C22: under every assignment that satisfies the known conditions the result
\* of RemoveRedundantInequalities has the value of the expression; a
\* comparison is replaced by true only where the known conditions, the
\* condition of the enclosing true branch or the ranges and the condition of
\* the enclosing reduction imply it, and never in a false branch because of
\* the condition of its conditional.
DenotationPreserved ==
  rr_pc = "done" => SameValueUnderKnown /\ BranchesUseOwnFacts /\ ReduceUsesOwnFacts

\* A Select is kept whose comparison is removed from the true branch and kept
\* in the false branch.
DenotationPreservedWitness ==
  /\ rr_pc = "done"
  /\ rr_input.expr[1] = "Select"
  /\ ~Collapsed(rr_input.expr, rr_res)
  /\ IsConditional(TrueOf(rr_input.expr))
  /\ CondOf(TrueOf(rr_input.expr)) = CondOf(rr_input.expr)
  /\ ~IsConditional(TrueOf(rr_res))
  /\ IsConditional(FalseOf(rr_input.expr))
  /\ CondOf(FalseOf(rr_input.expr)) = CondOf(rr_input.expr)
  /\ IsConditional(FalseOf(rr_res))

\* A reduction whose source is collapsed by the ranges of its axis or by its
\* condition.
ReduceCollapsedWitness ==
  /\ rr_pc = "done"
  /\ rr_input.expr[1] = "Reduce"
  /\ rr_input.known = <<>>
  /\ ~IsConditional(rr_res[3])
  /\ rr_input.expr[3][2] # BinOp("LE", IntImm(1), IntImm(0))

====
